---- MODULE Spec2Model ----
(***************************************************************************)
(* WiFi-Spectrum-Suite: the resilient ingestion engine.                    *)
(*   Analisis_Interferencias.py : robust_csv_loader, manual_csv_loader,    *)
(*                                clean_and_validate_data,                 *)
(*                                analyze_wifi_interference (load stage)   *)
(*   WiFi_Wardriving.py         : WardrivingAnalyzer.cargar_datos          *)
(*   depurador_csv.py           : analyze_date_problems, looks_like_date,  *)
(*                                repair_date_issues, repair_date_field,   *)
(*                                main (--solo-analisis),                  *)
(*                                validate_date_repair                     *)
(*                                                                         *)
(* Text is a sequence of tokens.  The delimiter ",", the whitespace        *)
(* characters and the characters a number is made of ("-", "+", "0".."9")  *)
(* are one token each; every other token ("SSID", "abc", "N/A") is a run   *)
(* of characters that holds no delimiter and no whitespace and is no part  *)
(* of a number.  Splitting, stripping and numeric parsing work on these    *)
(* sequences as the Python code works on characters.  Numbers are          *)
(* integers: no field of the model's files holds a fraction or exponent.   *)
(* The files and values given to depurador_csv.py are spelled character by *)
(* character, every token one character, because its functions look        *)
(* inside words (letter case, substrings, digits of a date).               *)
(***************************************************************************)
EXTENDS Integers, Sequences, FiniteSets, TLC

VARIABLES
    entry,      \* the function under call
    file,       \* the CSV file: whether it exists, decodes as UTF-8, its lines
    path,       \* depurador_csv.py: the path the function is given
    disk,       \* depurador_csv.py: the files on disk, path to lines
    arg,        \* the argument of looks_like_date / repair_date_field
    clock,      \* what datetime.now() returns during the call
    pc,         \* position in the call
    strat,      \* robust_csv_loader: the strategy to try next (i + 1)
    log,        \* what was printed, in order
    raw,        \* the dataset as the loader returned it
    df,         \* the caller's DataFrame object (mutated in place)
    out,        \* the dataset the cleaning stage returned
    corrected,  \* manual_csv_loader: problematic_lines of the last call
    resolved,   \* cargar_datos: self.df as the column mapping left it
    result      \* what the entry function returned

vars == <<entry, file, path, disk, arg, clock, pc, strat, log, raw, df, out, corrected, resolved, result>>

(***************************************************************************)
(* Bounds                                                                  *)
(***************************************************************************)
MaxDataLines == 3

\* the most data lines of a file given to depurador_csv.py
MaxDateLines == 2

(***************************************************************************)
(* Text: str.strip, str.split(','), joining                                *)
(***************************************************************************)
Whitespace == {" ", "\n", "\t", "\r"}

RECURSIVE LStrip(_)
LStrip(s) ==
    IF s # <<>> /\ Head(s) \in Whitespace THEN LStrip(Tail(s)) ELSE s

RECURSIVE RStrip(_)
RStrip(s) ==
    IF s # <<>> /\ s[Len(s)] \in Whitespace
    THEN RStrip(SubSeq(s, 1, Len(s) - 1))
    ELSE s

Strip(s) == RStrip(LStrip(s))

RECURSIVE Split(_)
Split(s) ==
    IF \E k \in 1..Len(s) : s[k] = ","
    THEN LET k == CHOOSE j \in 1..Len(s) :
                      s[j] = "," /\ \A m \in 1..(j - 1) : s[m] # ","
         IN  <<SubSeq(s, 1, k - 1)>> \o Split(SubSeq(s, k + 1, Len(s)))
    ELSE <<s>>

RECURSIVE Join(_)
Join(fields) ==
    IF fields = <<>> THEN <<>>
    ELSE IF Len(fields) = 1 THEN fields[1]
    ELSE fields[1] \o <<",">> \o Join(Tail(fields))

Range(s) == {s[k] : k \in 1..Len(s)}

(***************************************************************************)
(* Cells of a DataFrame: text, a number, or the missing value (NaN/NaT)    *)
(***************************************************************************)
Str(f) == <<"str", f>>
Num(n) == <<"num", n>>
NaN == <<"nan">>

IsStr(c) == c[1] = "str"
IsNum(c) == c[1] = "num"
IsNaN(c) == c[1] = "nan"

\* A new DataFrame has the default index 0, 1, ...; the index labels stay
\* with their rows when rows are dropped.
DataFrame(cols, rows) ==
    [kind |-> "df", columns |-> cols, rows |-> rows,
     index |-> [k \in 1..Len(rows) |-> k - 1]]
None == [kind |-> "None"]
Raise(e) == [kind |-> "raise", exc |-> e]

IsDF(v) == v.kind = "df"
IsRaise(v) == v.kind = "raise"

HasColumn(d, name) == name \in Range(d.columns)
ColIndex(d, name) == CHOOSE k \in 1..Len(d.columns) : d.columns[k] = name

(***************************************************************************)
(* manual_csv_loader                                                       *)
(***************************************************************************)
\* Mutant: a short row is appended as it is, without padding.
ManualRow_NoPad(line, expected_columns) ==
    LET fields == Split(Strip(line)) IN
    [append |-> <<[k \in 1..(IF Len(fields) > expected_columns
                               THEN expected_columns ELSE Len(fields)) |->
                     Str(fields[k])]>>,
     problematic |-> IF Len(fields) = expected_columns THEN 0 ELSE 1]

\* Mutant: a blank line is skipped instead of being padded.
ManualRow_SkipBlank(line, expected_columns) ==
    LET fields == Split(Strip(line)) IN
    IF Strip(line) = <<>>
    THEN [append |-> <<>>, problematic |-> 0]
    ELSE [append |-> <<[k \in 1..expected_columns |->
                          IF k <= Len(fields) THEN Str(fields[k]) ELSE NaN]>>,
          problematic |-> IF Len(fields) = expected_columns THEN 0 ELSE 1]

\* One iteration of the loop over lines[2:]: the row appended to data (none
\* in the final else branch) and the increment of problematic_lines.
ManualRow(line, expected_columns) ==
    LET fields == Split(Strip(line)) IN
    IF Len(fields) = expected_columns
    THEN [append |-> <<[k \in 1..Len(fields) |-> Str(fields[k])]>>, problematic |-> 0]
    ELSE IF Len(fields) > expected_columns
    THEN [append |-> <<[k \in 1..expected_columns |-> Str(fields[k])]>>,
          problematic |-> 1]
    ELSE IF Len(fields) < expected_columns
    THEN [append |-> <<[k \in 1..expected_columns |->
                          IF k <= Len(fields) THEN Str(fields[k]) ELSE NaN]>>,
          problematic |-> 1]
    ELSE [append |-> <<>>, problematic |-> 1]

RECURSIVE ManualLoop(_, _, _, _, _)
ManualLoop(lines, i, expected_columns, data, problematic_lines) ==
    IF i > Len(lines)
    THEN [data |-> data, problematic_lines |-> problematic_lines]
    ELSE LET r == ManualRow(lines[i], expected_columns)
         IN  ManualLoop(lines, i + 1, expected_columns, data \o r.append,
                        problematic_lines + r.problematic)

\* The result: a DataFrame with what was printed and the correction count,
\* or the exception raised.  open(..., errors='ignore') reads any bytes.
manual_csv_loader(f) ==
    IF ~f.exists THEN Raise("FileNotFoundError")
    ELSE IF Len(f.lines) < 2 THEN Raise("ValueError")
    ELSE LET headers == Split(Strip(f.lines[2]))
             expected_columns == Len(headers)
             loop == ManualLoop(f.lines, 3, expected_columns, <<>>, 0)
         IN  [kind |-> "df",
              columns |-> headers,
              rows |-> loop.data,
              problematic_lines |-> loop.problematic_lines,
              printed |-> <<<<"Encabezados detectados", expected_columns>>,
                            <<"Lineas totales", Len(f.lines)>>>>
                          \o (IF loop.problematic_lines > 0
                              THEN <<<<"Lineas problematicas corregidas",
                                       loop.problematic_lines>>>>
                              ELSE <<>>)]

(***************************************************************************)
(* pandas.read_csv as the loaders call it.  A line ends with "\n"; blank   *)
(* lines are skipped; the first remaining line after skiprows is the       *)
(* header; a short record is padded with NaN; a record with more fields    *)
(* than the header is a bad line, which raises (on_bad_lines 'error', the  *)
(* default) or is left out ('skip', 'warn').  Fields equal to one of the   *)
(* default NA spellings are read as missing.  Column type inference is not *)
(* modelled: every later use goes through pd.to_numeric, which gives a     *)
(* text cell the value inference would have given it.                      *)
(***************************************************************************)
Chomp(line) ==
    IF line # <<>> /\ line[Len(line)] = "\n"
    THEN SubSeq(line, 1, Len(line) - 1)
    ELSE line

IsBlank(line) == Chomp(line) = <<>>

PandasNA == {<<>>, <<"N/A">>, <<"NA">>, <<"NULL">>, <<"NaN">>, <<"nan">>,
             <<"n/a">>, <<"null">>, <<"None">>}

ReadCell(field) == IF field \in PandasNA THEN NaN ELSE Str(field)

\* Mutant: a record with too many fields is cut to the header's length
\* instead of being left out.
read_csv_KeepBadLines(f, skiprows, on_bad_lines) ==
    IF ~f.exists THEN Raise("FileNotFoundError")
    ELSE IF ~f.utf8 THEN Raise("UnicodeDecodeError")
    ELSE LET body == SelectSeq(SubSeq(f.lines, skiprows + 1, Len(f.lines)),
                               LAMBDA l : ~IsBlank(l))
         IN  IF body = <<>> THEN Raise("EmptyDataError")
             ELSE LET names == Split(Chomp(body[1]))
                      n == Len(names)
                      recs == [k \in 1..(Len(body) - 1) |-> Split(Chomp(body[k + 1]))]
                  IN  IF (\E k \in DOMAIN recs : Len(recs[k]) > n)
                         /\ on_bad_lines = "error"
                      THEN Raise("ParserError")
                      ELSE DataFrame(names,
                             [k \in 1..Len(recs) |->
                                [c \in 1..n |-> IF c <= Len(recs[k])
                                                THEN ReadCell(recs[k][c])
                                                ELSE NaN]])

read_csv(f, skiprows, on_bad_lines) ==
    IF ~f.exists THEN Raise("FileNotFoundError")
    ELSE IF ~f.utf8 THEN Raise("UnicodeDecodeError")
    ELSE LET body == SelectSeq(SubSeq(f.lines, skiprows + 1, Len(f.lines)),
                               LAMBDA l : ~IsBlank(l))
         IN  IF body = <<>> THEN Raise("EmptyDataError")
             ELSE LET names == Split(Chomp(body[1]))
                      n == Len(names)
                      recs == [k \in 1..(Len(body) - 1) |-> Split(Chomp(body[k + 1]))]
                      good == SelectSeq(recs, LAMBDA r : Len(r) <= n)
                  IN  IF good # recs /\ on_bad_lines = "error"
                      THEN Raise("ParserError")
                      ELSE DataFrame(names,
                             [k \in 1..Len(good) |->
                                [c \in 1..n |-> IF c <= Len(good[k])
                                                THEN ReadCell(good[k][c])
                                                ELSE NaN]])

\* robust_csv_loader's list of strategies, in its order
strategies(i, f) ==
    CASE i = 1 -> read_csv(f, 1, "error")
      [] i = 2 -> read_csv(f, 1, "skip")
      [] i = 3 -> read_csv(f, 1, "skip")
      [] i = 4 -> read_csv(f, 1, "error")

NumStrategies == 4

(***************************************************************************)
(* pd.to_numeric(errors='coerce') on one cell                              *)
(***************************************************************************)
Digits == <<"0", "1", "2", "3", "4", "5", "6", "7", "8", "9">>

IsDigit(c) == c \in Range(Digits)

DigitVal(c) == (CHOOSE k \in 1..Len(Digits) : Digits[k] = c) - 1

RECURSIVE NatVal(_)
NatVal(s) ==
    IF s = <<>> THEN 0
    ELSE NatVal(SubSeq(s, 1, Len(s) - 1)) * 10 + DigitVal(s[Len(s)])

Unsigned(s) == IF s # <<>> /\ s[1] \in {"-", "+"} THEN Tail(s) ELSE s

IsNumericText(s) ==
    /\ Unsigned(s) # <<>>
    /\ \A k \in 1..Len(Unsigned(s)) : IsDigit(Unsigned(s)[k])

NumericValue(s) ==
    IF s[1] = "-" THEN 0 - NatVal(Unsigned(s)) ELSE NatVal(Unsigned(s))

\* Mutant: a text that is no number is given the value 0.
to_numeric_ZeroOnError(c) ==
    IF IsNum(c) THEN c
    ELSE IF IsStr(c) /\ IsNumericText(c[2]) THEN Num(NumericValue(c[2]))
    ELSE Num(0)

to_numeric(c) ==
    IF IsNum(c) THEN c
    ELSE IF IsStr(c) /\ IsNumericText(c[2]) THEN Num(NumericValue(c[2]))
    ELSE NaN

(***************************************************************************)
(* Column operations of a DataFrame                                        *)
(***************************************************************************)
Column(d, name) == [k \in 1..Len(d.rows) |-> d.rows[k][ColIndex(d, name)]]

\* df[name] = values, for a column that exists
AssignColumn(d, name, values) ==
    [d EXCEPT !.rows =
        [k \in 1..Len(d.rows) |->
           [c \in 1..Len(d.columns) |->
              IF c = ColIndex(d, name) THEN values[k] ELSE d.rows[k][c]]]]

\* df[name] = values: overwrites the column, or appends a new one
SetColumn(d, name, values) ==
    IF HasColumn(d, name) THEN AssignColumn(d, name, values)
    ELSE [d EXCEPT !.columns = Append(d.columns, name),
                   !.rows = [k \in 1..Len(d.rows) |-> Append(d.rows[k], values[k])]]

\* pd.to_numeric(series, errors='coerce')
to_numeric_series(values) == [k \in 1..Len(values) |-> to_numeric(values[k])]

CountNaN(values) == Cardinality({k \in 1..Len(values) : IsNaN(values[k])})

\* Mutant: a row is dropped only when every named column is missing in it.
dropna_HowAll(d, names) ==
    LET kept == SelectSeq([k \in 1..Len(d.rows) |-> k],
                          LAMBDA k : \E name \in names :
                                        ~IsNaN(d.rows[k][ColIndex(d, name)]))
    IN  [d EXCEPT !.rows = [j \in 1..Len(kept) |-> d.rows[kept[j]]],
                  !.index = [j \in 1..Len(kept) |-> d.index[kept[j]]]]

\* df.dropna(subset=names), every name a column of d
dropna(d, names) ==
    LET kept == SelectSeq([k \in 1..Len(d.rows) |-> k],
                          LAMBDA k : \A name \in names :
                                        ~IsNaN(d.rows[k][ColIndex(d, name)]))
    IN  [d EXCEPT !.rows = [j \in 1..Len(kept) |-> d.rows[kept[j]]],
                  !.index = [j \in 1..Len(kept) |-> d.index[kept[j]]]]

(***************************************************************************)
(* clean_and_validate_data                                                 *)
(***************************************************************************)
SSID == <<"SSID">>
RSSI == <<"RSSI">>
Channel == <<"Channel">>

critical_columns == <<SSID, RSSI, Channel>>

\* The call's outcome: the DataFrame returned (kind "df") or the exception
\* raised (kind "raise"), the caller's object as the call left it
\* (mutated), and what was printed.
clean_and_validate_data(d) ==
    LET missing_columns == SelectSeq(critical_columns, LAMBDA col : ~HasColumn(d, col))
        d1 == IF HasColumn(d, RSSI)
              THEN AssignColumn(d, RSSI, to_numeric_series(Column(d, RSSI)))
              ELSE d
        rssi_nulos == IF HasColumn(d, RSSI) THEN CountNaN(Column(d1, RSSI)) ELSE 0
        d2 == IF HasColumn(d1, Channel)
              THEN AssignColumn(d1, Channel, to_numeric_series(Column(d1, Channel)))
              ELSE d1
        channel_nulos == IF HasColumn(d, Channel) THEN CountNaN(Column(d2, Channel)) ELSE 0
        head == <<<<"Forma inicial", Len(d.rows), Len(d.columns)>>>>
                \o (IF missing_columns # <<>>
                    THEN <<<<"Columnas faltantes", missing_columns>>>> ELSE <<>>)
                \o (IF rssi_nulos > 0
                    THEN <<<<"Valores RSSI no numericos eliminados", rssi_nulos>>>>
                    ELSE <<>>)
                \o (IF channel_nulos > 0
                    THEN <<<<"Valores Channel no numericos eliminados", channel_nulos>>>>
                    ELSE <<>>)
    IN  IF ~HasColumn(d2, RSSI) \/ ~HasColumn(d2, Channel)
        THEN [kind |-> "raise", exc |-> "KeyError", mutated |-> d2, printed |-> head]
        ELSE LET kept == dropna(d2, {RSSI, Channel})
                 removed_rows == Len(d2.rows) - Len(kept.rows)
             IN  [kind |-> "df", returned |-> kept, mutated |-> d2,
                  printed |-> head
                      \o (IF removed_rows > 0
                          THEN <<<<"Filas sin datos criticos eliminadas", removed_rows>>>>
                          ELSE <<>>)
                      \o <<<<"Forma final", Len(kept.rows), Len(kept.columns)>>>>]

(***************************************************************************)
(* WardrivingAnalyzer.cargar_datos: column mapping and coercions           *)
(***************************************************************************)
FirstSeen == <<"FirstSeen">>
Frequency == <<"Frequency">>
CurrentLatitude == <<"CurrentLatitude">>
CurrentLongitude == <<"CurrentLongitude">>
AuthMode == <<"AuthMode">>
Timestamp == <<"Timestamp">>

columnas_requeridas ==
    <<SSID, FirstSeen, Channel, Frequency, RSSI, CurrentLatitude,
      CurrentLongitude, AuthMode>>

\* Mutant: the required name RSSI is an accepted spelling of Frequency.
mapeo_columnas_Chained(col) ==
    CASE col = SSID -> <<SSID, <<"ssid">>, <<"Ssid">>>>
      [] col = FirstSeen ->
            <<FirstSeen, <<"First", " ", "seen">>, <<"firstseen">>, Timestamp>>
      [] col = Channel -> <<Channel, <<"channel">>, <<"CH">>>>
      [] col = Frequency -> <<Frequency, <<"frequency">>, <<"Freq">>, RSSI>>
      [] col = RSSI -> <<RSSI, <<"rssi">>, <<"Signal">>>>
      [] col = CurrentLatitude ->
            <<CurrentLatitude, <<"Latitude">>, <<"Lat">>, <<"latitude">>>>
      [] col = CurrentLongitude ->
            <<CurrentLongitude, <<"Longitude">>, <<"Lon">>, <<"longitude">>>>
      [] col = AuthMode ->
            <<AuthMode, <<"Authentication">>, <<"Encryption">>, <<"auth">>>>
      [] OTHER -> <<>>

mapeo_columnas(col) ==
    CASE col = SSID -> <<SSID, <<"ssid">>, <<"Ssid">>>>
      [] col = FirstSeen ->
            <<FirstSeen, <<"First", " ", "seen">>, <<"firstseen">>, Timestamp>>
      [] col = Channel -> <<Channel, <<"channel">>, <<"CH">>>>
      [] col = Frequency -> <<Frequency, <<"frequency">>, <<"Freq">>>>
      [] col = RSSI -> <<RSSI, <<"rssi">>, <<"Signal">>>>
      [] col = CurrentLatitude ->
            <<CurrentLatitude, <<"Latitude">>, <<"Lat">>, <<"latitude">>>>
      [] col = CurrentLongitude ->
            <<CurrentLongitude, <<"Longitude">>, <<"Lon">>, <<"longitude">>>>
      [] col = AuthMode ->
            <<AuthMode, <<"Authentication">>, <<"Encryption">>, <<"auth">>>>
      [] OTHER -> <<>>

\* self.df.columns = self.df.columns.str.strip()
StripColumns(d) ==
    [d EXCEPT !.columns = [k \in 1..Len(d.columns) |-> Strip(d.columns[k])]]

\* Mutant: the inner loop has no break, the last matching alias wins.
FirstAlias_NoBreak(d, aliases) ==
    IF \E k \in 1..Len(aliases) : HasColumn(d, aliases[k])
    THEN CHOOSE k \in 1..Len(aliases) :
            /\ HasColumn(d, aliases[k])
            /\ \A j \in (k + 1)..Len(aliases) : ~HasColumn(d, aliases[j])
    ELSE 0

\* The inner loop over posible_nombre: the position of the alias it breaks
\* at, 0 when it runs to the end.
FirstAlias(d, aliases) ==
    IF \E k \in 1..Len(aliases) : HasColumn(d, aliases[k])
    THEN CHOOSE k \in 1..Len(aliases) :
            /\ HasColumn(d, aliases[k])
            /\ \A j \in 1..(k - 1) : ~HasColumn(d, aliases[j])
    ELSE 0

\* The loop over columnas_faltantes: the DataFrame and the lines printed.
RECURSIVE MapColumns(_, _, _)
MapColumns(d, faltantes, printed) ==
    IF faltantes = <<>> THEN [df |-> d, printed |-> printed]
    ELSE LET col_requerida == Head(faltantes)
             aliases == mapeo_columnas(col_requerida)
             k == FirstAlias(d, aliases)
         IN  IF k = 0 THEN MapColumns(d, Tail(faltantes), printed)
             ELSE MapColumns(SetColumn(d, col_requerida, Column(d, aliases[k])),
                             Tail(faltantes),
                             Append(printed,
                                    <<"Mapeada columna", aliases[k], col_requerida>>))

\* pd.to_datetime(errors='coerce') on one cell: an ISO date YYYY-MM-DD is
\* parsed, the other texts of the model's files are no dates (NaT).
IsDateText(s) ==
    /\ Len(s) = 10
    /\ s[5] = "-" /\ s[8] = "-"
    /\ \A k \in {1, 2, 3, 4, 6, 7, 9, 10} : IsDigit(s[k])
    /\ NatVal(SubSeq(s, 6, 7)) \in 1..12
    /\ NatVal(SubSeq(s, 9, 10)) \in 1..31

to_datetime(c) ==
    IF IsStr(c) /\ IsDateText(c[2])
    THEN <<"ts", NatVal(SubSeq(c[2], 1, 4)), NatVal(SubSeq(c[2], 6, 7)),
           NatVal(SubSeq(c[2], 9, 10))>>
    ELSE NaN

\* .fillna(0).astype(int) on one cell
fillna_int(c) == IF IsNaN(c) THEN Num(0) ELSE c

\* The numeric coercions of cargar_datos, lines 103-113
CoerceColumns(d) ==
    LET d0 == SetColumn(d, Timestamp,
                        [k \in 1..Len(d.rows) |-> to_datetime(Column(d, FirstSeen)[k])])
        d1 == IF HasColumn(d0, Channel)
              THEN AssignColumn(d0, Channel,
                     [k \in 1..Len(d0.rows) |->
                        fillna_int(to_numeric(Column(d0, Channel)[k]))])
              ELSE d0
        d2 == IF HasColumn(d1, Frequency)
              THEN AssignColumn(d1, Frequency,
                     [k \in 1..Len(d1.rows) |->
                        fillna_int(to_numeric(Column(d1, Frequency)[k]))])
              ELSE d1
    IN  IF HasColumn(d2, RSSI)
        THEN AssignColumn(d2, RSSI, to_numeric_series(Column(d2, RSSI)))
        ELSE d2

\* Mutant: the rows without RSSI are dropped with those without coordinates.
CleanCoordinates_DropRSSI(d) ==
    LET d1 == IF HasColumn(d, CurrentLatitude)
              THEN dropna(AssignColumn(d, CurrentLatitude,
                                       to_numeric_series(Column(d, CurrentLatitude))),
                          {CurrentLatitude})
              ELSE d
        d2 == IF HasColumn(d1, CurrentLongitude)
              THEN dropna(AssignColumn(d1, CurrentLongitude,
                                       to_numeric_series(Column(d1, CurrentLongitude))),
                          {CurrentLongitude})
              ELSE d1
    IN  IF HasColumn(d2, RSSI) THEN dropna(d2, {RSSI}) ELSE d2

\* The coordinate cleaning of cargar_datos, lines 116-122
CleanCoordinates(d) ==
    LET d1 == IF HasColumn(d, CurrentLatitude)
              THEN dropna(AssignColumn(d, CurrentLatitude,
                                       to_numeric_series(Column(d, CurrentLatitude))),
                          {CurrentLatitude})
              ELSE d
    IN  IF HasColumn(d1, CurrentLongitude)
        THEN dropna(AssignColumn(d1, CurrentLongitude,
                                 to_numeric_series(Column(d1, CurrentLongitude))),
                    {CurrentLongitude})
        ELSE d1

\* any('SSID' in str(col) for col in temp_df.columns)
HasSSIDColumn(d) == \E k \in 1..Len(d.columns) : "SSID" \in Range(d.columns[k])

\* self.df.empty
IsEmpty(d) == d.rows = <<>> \/ d.columns = <<>>

(***************************************************************************)
(* depurador_csv.py: letter case and substrings                            *)
(***************************************************************************)
UpperCase ==
    <<"A", "B", "C", "D", "E", "F", "G", "H", "I", "J", "K", "L", "M",
      "N", "O", "P", "Q", "R", "S", "T", "U", "V", "W", "X", "Y", "Z">>

LowerCase ==
    <<"a", "b", "c", "d", "e", "f", "g", "h", "i", "j", "k", "l", "m",
      "n", "o", "p", "q", "r", "s", "t", "u", "v", "w", "x", "y", "z">>

\* str.upper() and str.lower(), character by character
upper(s) ==
    [k \in 1..Len(s) |->
        IF \E j \in 1..26 : LowerCase[j] = s[k]
        THEN UpperCase[CHOOSE j \in 1..26 : LowerCase[j] = s[k]]
        ELSE s[k]]

lower(s) ==
    [k \in 1..Len(s) |->
        IF \E j \in 1..26 : UpperCase[j] = s[k]
        THEN LowerCase[CHOOSE j \in 1..26 : UpperCase[j] = s[k]]
        ELSE s[k]]

\* keyword in text
Contains(s, sub) ==
    \E i \in 1..(Len(s) - Len(sub) + 1) : SubSeq(s, i, i + Len(sub) - 1) = sub

(***************************************************************************)
(* looks_like_date                                                         *)
(***************************************************************************)
date_patterns ==
    <<<<"\\d", "\\d", "\\d", "\\d", "-", "\\d", "\\d", "-", "\\d", "\\d">>,
      <<"\\d", "\\d", "/", "\\d", "\\d", "/", "\\d", "\\d", "\\d", "\\d">>,
      <<"\\d", "\\d", "-", "\\d", "\\d", "-", "\\d", "\\d", "\\d", "\\d">>,
      <<"\\d", "\\d", "\\d", "\\d", "/", "\\d", "\\d", "/", "\\d", "\\d">>>>

date_keywords ==
    <<<<"2", "0", "2", "4">>, <<"2", "0", "2", "5">>,
      <<"2", "0", "2", "3">>, <<"j", "a", "n">>, <<"f", "e", "b">>,
      <<"m", "a", "r">>, <<"a", "p", "r">>, <<"m", "a", "y">>,
      <<"j", "u", "n">>, <<"j", "u", "l">>, <<"a", "u", "g">>,
      <<"s", "e", "p">>, <<"o", "c", "t">>, <<"n", "o", "v">>,
      <<"d", "e", "c">>, <<"a", "m">>, <<"p", "m">>>>

\* re.search(pattern, text): "\\d" stands for one digit, any other element
\* of a pattern for itself
re_search(pattern, s) ==
    \E i \in 1..(Len(s) - Len(pattern) + 1) :
        \A k \in 1..Len(pattern) :
            IF pattern[k] = "\\d" THEN IsDigit(s[i + k - 1])
            ELSE s[i + k - 1] = pattern[k]

\* Mutant: a pattern has to match the whole value and a keyword has to be
\* the whole value.
looks_like_date_WholeValue(value) ==
    IF value = <<>> \/ Strip(value) = <<>> THEN FALSE
    ELSE LET value_str == Strip(value)
         IN  \/ \E p \in 1..Len(date_patterns) :
                   /\ Len(date_patterns[p]) = Len(value_str)
                   /\ re_search(date_patterns[p], value_str)
             \/ \E k \in 1..Len(date_keywords) :
                   lower(value_str) = date_keywords[k]

looks_like_date(value) ==
    IF value = <<>> \/ Strip(value) = <<>> THEN FALSE
    ELSE LET value_str == Strip(value)
         IN  \/ \E p \in 1..Len(date_patterns) :
                   re_search(date_patterns[p], value_str)
             \/ \E k \in 1..Len(date_keywords) :
                   Contains(lower(value_str), date_keywords[k])

(***************************************************************************)
(* analyze_date_problems.  open(..., errors='ignore') drops the bytes that *)
(* are no UTF-8, so the lines read are the file's lines whatever its       *)
(* encoding.  The value returned is a tuple of 2 or of 3 elements.         *)
(***************************************************************************)
header_keywords ==
    <<<<"T", "I", "M", "E">>, <<"D", "A", "T", "E">>,
      <<"S", "E", "E", "N">>, <<"F", "I", "R", "S", "T">>,
      <<"L", "A", "S", "T">>>>

List(items) == [kind |-> "list", items |-> items]

Tuple2(a, b) == [kind |-> "tuple", len |-> 2, t1 |-> a, t2 |-> b]
Tuple3(a, b, c) == [kind |-> "tuple", len |-> 3, t1 |-> a, t2 |-> b, t3 |-> c]

\* date_columns: the pairs (i, header) of lines 32-35, i counted from 0
DateColumns(headers) ==
    SelectSeq([i \in 1..Len(headers) |-> <<i - 1, headers[i]>>],
              LAMBDA p : \E k \in 1..Len(header_keywords) :
                            Contains(upper(p[2]), header_keywords[k]))

\* date_samples[col_name].append(value): a dict in insertion order
AddSample(date_samples, col_name, value) ==
    IF \E k \in 1..Len(date_samples) : date_samples[k][1] = col_name
    THEN [k \in 1..Len(date_samples) |->
            IF date_samples[k][1] = col_name
            THEN <<col_name, Append(date_samples[k][2], value)>>
            ELSE date_samples[k]]
    ELSE Append(date_samples, <<col_name, <<value>>>>)

\* the loop over date_columns for one line, lines 48-62
RECURSIVE SampleFields(_, _, _, _)
SampleFields(fields, line_num, date_columns, acc) ==
    IF date_columns = <<>> THEN acc
    ELSE LET col_idx == Head(date_columns)[1]
             col_name == Head(date_columns)[2]
         IN  IF col_idx < Len(fields)
             THEN LET value == fields[col_idx + 1]
                  IN  SampleFields(fields, line_num, Tail(date_columns),
                        [date_samples |->
                            AddSample(acc.date_samples, col_name, value),
                         problematic_lines |->
                            IF ~looks_like_date(value)
                            THEN Append(acc.problematic_lines,
                                        [line |-> line_num, column |-> col_name,
                                         value |-> value,
                                         reason |-> "No parece fecha"])
                            ELSE acc.problematic_lines])
             ELSE SampleFields(fields, line_num, Tail(date_columns), acc)

\* for line_num, line in enumerate(lines[2:12], start=3): line_num is the
\* number of the line counted from 1, the slice ends with line 12
RECURSIVE SampleLoop(_, _, _, _)
SampleLoop(lines, line_num, date_columns, acc) ==
    IF line_num > 12 \/ line_num > Len(lines) THEN acc
    ELSE IF line_num >= Len(lines) THEN acc
    ELSE SampleLoop(lines, line_num + 1, date_columns,
                    SampleFields(Split(Strip(lines[line_num])), line_num,
                                 date_columns, acc))

analyze_date_problems(f, fault) ==
    IF ~f.exists \/ fault
    THEN [ret |-> Tuple3(None, <<>>, <<>>),
          printed |-> <<<<"ERROR durante el analisis",
                          IF ~f.exists THEN "FileNotFoundError" ELSE "OSError">>>>]
    ELSE LET lines == f.lines IN
         IF Len(lines) < 2
         THEN [ret |-> Tuple2(None, <<>>),
               printed |-> <<<<"Total de lineas en el archivo", Len(lines)>>,
                             <<"El archivo esta vacio o tiene muy pocas lineas">>>>]
         ELSE LET headers == Split(Strip(lines[2]))
                  date_columns == DateColumns(headers)
                  s == SampleLoop(lines, 3, date_columns,
                                  [date_samples |-> <<>>,
                                   problematic_lines |-> <<>>])
              IN  [ret |-> Tuple3(List(headers), s.problematic_lines,
                                  date_columns),
                   printed |->
                       <<<<"Total de lineas en el archivo", Len(lines)>>,
                         <<"Encabezados detectados", Len(headers), headers>>,
                         <<"Columnas potencialmente de fecha", date_columns>>,
                         <<"MUESTRAS DE FECHAS", s.date_samples>>>>]

(***************************************************************************)
(* datetime: a moment is a record of six numbers.  strptime builds a       *)
(* regular expression from the format (a directive is a group of           *)
(* alternatives tried in order, a blank is \s+), takes the first match of  *)
(* a prefix of the text, and raises ValueError when text remains or the    *)
(* numbers are no moment.  The values of the model have years of four      *)
(* significant digits.                                                     *)
(***************************************************************************)
Moment(Y, m, d, H, M, S) == [Y |-> Y, m |-> m, d |-> d, H |-> H, M |-> M, S |-> S]

ValueError == [ok |-> FALSE]

Zfill(n, w) == [k \in 1..w |-> Digits[((n \div (10 ^ (w - k))) % 10) + 1]]

\* Mutant: the moment is written month first, MM/DD/YYYY HH:MM:SS.
strftime_MonthFirst(t) ==
    Zfill(t.m, 2) \o <<"/">> \o Zfill(t.d, 2) \o <<"/">> \o Zfill(t.Y, 4)
        \o <<" ">> \o Zfill(t.H, 2) \o <<":">> \o Zfill(t.M, 2)
        \o <<":">> \o Zfill(t.S, 2)

\* strftime('%Y-%m-%d %H:%M:%S')
strftime(t) ==
    Zfill(t.Y, 4) \o <<"-">> \o Zfill(t.m, 2) \o <<"-">> \o Zfill(t.d, 2)
        \o <<" ">> \o Zfill(t.H, 2) \o <<":">> \o Zfill(t.M, 2)
        \o <<":">> \o Zfill(t.S, 2)

IsLeap(Y) == (Y % 4 = 0 /\ Y % 100 # 0) \/ Y % 400 = 0

DaysInMonth(Y, m) ==
    IF m = 2 THEN (IF IsLeap(Y) THEN 29 ELSE 28)
    ELSE IF m \in {4, 6, 9, 11} THEN 30 ELSE 31

\* two digits at the head of s with a value in lo..hi
TwoDigits(s, lo, hi) ==
    /\ Len(s) >= 2 /\ IsDigit(s[1]) /\ IsDigit(s[2])
    /\ NatVal(SubSeq(s, 1, 2)) \in lo..hi

RECURSIVE BlankRun(_)
BlankRun(s) ==
    IF s # <<>> /\ Head(s) \in Whitespace THEN 1 + BlankRun(Tail(s)) ELSE 0

\* the lengths of the prefixes of s that one element of a format matches,
\* in the order the regular expression tries them
Alternatives(e, s) ==
    LET two(lo, hi) == IF TwoDigits(s, lo, hi) THEN <<2>> ELSE <<>>
        one == IF s # <<>> /\ IsDigit(s[1]) THEN <<1>> ELSE <<>>
        nonzero == IF s # <<>> /\ IsDigit(s[1]) /\ s[1] # "0" THEN <<1>> ELSE <<>>
    IN  CASE e = "%Y" -> IF Len(s) >= 4 /\ \A k \in 1..4 : IsDigit(s[k])
                         THEN <<4>> ELSE <<>>
          [] e = "%m" -> two(1, 12) \o nonzero
          [] e = "%d" -> two(1, 31) \o nonzero
                         \o (IF Len(s) >= 2 /\ s[1] = " " /\ IsDigit(s[2])
                                /\ s[2] # "0"
                             THEN <<2>> ELSE <<>>)
          [] e = "%H" -> two(0, 23) \o one
          [] e = "%M" -> two(0, 59) \o one
          [] e = "%S" -> two(0, 61) \o one
          [] e = " " -> [k \in 1..BlankRun(s) |-> BlankRun(s) + 1 - k]
          [] OTHER -> IF s # <<>> /\ s[1] = e THEN <<1>> ELSE <<>>

\* s without its first n characters
Drop(s, n) == SubSeq(s, n + 1, Len(s))

\* the regular expression of the format matches a prefix of s
RECURSIVE CanMatch(_, _)
CanMatch(format, s) ==
    \/ format = <<>>
    \/ \E n \in Range(Alternatives(Head(format), s)) :
          CanMatch(Tail(format), Drop(s, n))

\* the first of the alternatives alts of an element that lets the rest of
\* the format match
RECURSIVE FirstFitting(_, _, _)
FirstFitting(rest, s, alts) ==
    IF CanMatch(rest, Drop(s, Head(alts))) THEN Head(alts)
    ELSE FirstFitting(rest, s, Tail(alts))

\* the first match of the format with a prefix of s, which there is: the
\* length matched by each element of the format
RECURSIVE regex_match(_, _)
RECURSIVE MatchFrom(_, _, _)
regex_match(format, s) ==
    IF format = <<>> THEN <<>>
    ELSE MatchFrom(format, s,
                   FirstFitting(Tail(format), s, Alternatives(Head(format), s)))

MatchFrom(format, s, n) == <<n>> \o regex_match(Tail(format), Drop(s, n))

RECURSIVE SumTo(_, _)
SumTo(lens, n) == IF n = 0 THEN 0 ELSE SumTo(lens, n - 1) + lens[n]

\* int(found_dict[directive])
Group(format, s, lens, e) ==
    NatVal(Strip(SubSeq(s,
        SumTo(lens, (CHOOSE k \in 1..Len(format) : format[k] = e) - 1) + 1,
        SumTo(lens, CHOOSE k \in 1..Len(format) : format[k] = e))))

\* datetime(...): the numbers have to be a moment
Validated(t) ==
    IF t.Y >= 1 /\ t.d <= DaysInMonth(t.Y, t.m) /\ t.S <= 59
    THEN [ok |-> TRUE, date |-> t]
    ELSE ValueError

\* the text is matched as a whole, the groups give the numbers
FromGroups(format, s, lens) ==
    IF SumTo(lens, Len(lens)) # Len(s) THEN ValueError
    ELSE Validated(Moment(Group(format, s, lens, "%Y"),
                          Group(format, s, lens, "%m"),
                          Group(format, s, lens, "%d"),
                          Group(format, s, lens, "%H"),
                          Group(format, s, lens, "%M"),
                          Group(format, s, lens, "%S")))

\* datetime.strptime(data_string, format)
strptime(data_string, format) ==
    IF ~CanMatch(format, data_string) THEN ValueError
    ELSE FromGroups(format, data_string, regex_match(format, data_string))

(***************************************************************************)
(* repair_date_field                                                       *)
(***************************************************************************)
OPEN == <<"O", "P", "E", "N">>

non_date_values ==
    <<<<"W", "P", "A", "2">>, <<"W", "P", "A">>, <<"W", "E", "P">>,
      <<"O", "P", "N">>, <<"O", "P", "E", "N">>,
      <<"U", "N", "K", "N", "O", "W", "N">>, <<"N", "/", "A">>,
      <<"N", "U", "L", "L">>>>

formats_to_try ==
    <<<<"%Y", "-", "%m", "-", "%d", " ", "%H", ":", "%M", ":", "%S">>,
      <<"%d", "/", "%m", "/", "%Y", " ", "%H", ":", "%M", ":", "%S">>,
      <<"%m", "/", "%d", "/", "%Y", " ", "%H", ":", "%M", ":", "%S">>,
      <<"%Y", "/", "%m", "/", "%d", " ", "%H", ":", "%M", ":", "%S">>,
      <<"%d", "-", "%m", "-", "%Y", " ", "%H", ":", "%M", ":", "%S">>,
      <<"%m", "-", "%d", "-", "%Y", " ", "%H", ":", "%M", ":", "%S">>,
      <<"%Y", "%m", "%d", "%H", "%M", "%S">>>>

\* datetime.strptime(value_str, fmt).strftime(...), or a ValueError
Reformat(parsed) ==
    IF parsed.ok THEN [ok |-> TRUE, text |-> strftime(parsed.date)] ELSE ValueError

\* the loop over formats_to_try from its k-th format on: what the first
\* format that parses gives, value_str when none does (line 224)
RECURSIVE TryFormats(_, _, _)
RECURSIVE TryNext(_, _, _, _)
TryFormats(value_str, formats, k) ==
    IF k > Len(formats) THEN value_str
    ELSE TryNext(value_str, formats, k,
                 Reformat(strptime(value_str, formats[k])))

TryNext(value_str, formats, k, r) ==
    IF r.ok THEN r.text ELSE TryFormats(value_str, formats, k + 1)

\* Mutant: the sentinel test compares the value as it is written.
repair_date_field_CaseSensitive(value, now) ==
    IF value = <<>> \/ Strip(value) = <<>> THEN value
    ELSE IF Strip(value) = OPEN THEN strftime(now)
    ELSE IF Strip(value) \in Range(non_date_values) THEN strftime(now)
    ELSE TryFormats(Strip(value), formats_to_try, 1)

\* Mutant: the month-first format is tried before the day-first one.
repair_date_field_MonthFirst(value, now) ==
    IF value = <<>> \/ Strip(value) = <<>> THEN value
    ELSE IF upper(Strip(value)) = OPEN THEN strftime(now)
    ELSE IF upper(Strip(value)) \in Range(non_date_values) THEN strftime(now)
    ELSE TryFormats(Strip(value),
                    <<formats_to_try[1], formats_to_try[3], formats_to_try[2],
                      formats_to_try[4], formats_to_try[5], formats_to_try[6],
                      formats_to_try[7]>>, 1)

\* now is what datetime.now() returns when the function is called
repair_date_field(value, now) ==
    IF value = <<>> \/ Strip(value) = <<>> THEN value
    ELSE IF upper(Strip(value)) = OPEN THEN strftime(now)
    ELSE IF upper(Strip(value)) \in Range(non_date_values) THEN strftime(now)
    ELSE TryFormats(Strip(value), formats_to_try, 1)

(***************************************************************************)
(* repair_date_issues, after its call of analyze_date_problems.  A clock   *)
(* gives the moment datetime.now() returns at each call of                 *)
(* repair_date_field: it starts at clock.start and advances clock.step     *)
(* seconds a call.                                                         *)
(***************************************************************************)
Now(clk, calls) == [clk.start EXCEPT !.S = @ + calls * clk.step]

\* the loop over date_column_indices for one line, lines 144-155.  st is
\* the fields of the line with corrections_made, the lines printed and the
\* number of calls of repair_date_field so far
RECURSIVE RepairFields(_, _, _, _)
RECURSIVE RepairField(_, _, _, _, _)
\* Mutant: a correction after the fifth is neither printed nor counted.
RepairField_CountCapped(date_column_indices, line_num, clk, st, repaired_value) ==
    RepairFields(Tail(date_column_indices), line_num, clk,
        IF repaired_value # st.fields[Head(date_column_indices) + 1]
        THEN [fields |-> [st.fields EXCEPT
                             ![Head(date_column_indices) + 1] = repaired_value],
              corrections_made |-> IF st.corrections_made < 5
                                   THEN st.corrections_made + 1
                                   ELSE st.corrections_made,
              calls |-> st.calls + 1,
              printed |->
                 IF st.corrections_made + 1 <= 5
                 THEN Append(st.printed,
                             <<"Linea", line_num,
                               st.fields[Head(date_column_indices) + 1],
                               repaired_value>>)
                 ELSE st.printed]
        ELSE [st EXCEPT !.calls = @ + 1])

RepairFields(date_column_indices, line_num, clk, st) ==
    IF date_column_indices = <<>> THEN st
    ELSE IF Head(date_column_indices) < Len(st.fields)
    THEN RepairField(date_column_indices, line_num, clk, st,
             repair_date_field(st.fields[Head(date_column_indices) + 1],
                               Now(clk, st.calls)))
    ELSE RepairFields(Tail(date_column_indices), line_num, clk, st)

\* lines 149-155, with the value repair_date_field returned
RepairField(date_column_indices, line_num, clk, st, repaired_value) ==
    RepairFields(Tail(date_column_indices), line_num, clk,
        IF repaired_value # st.fields[Head(date_column_indices) + 1]
        THEN [fields |-> [st.fields EXCEPT
                             ![Head(date_column_indices) + 1] = repaired_value],
              corrections_made |-> st.corrections_made + 1,
              calls |-> st.calls + 1,
              printed |->
                 IF st.corrections_made + 1 <= 5
                 THEN Append(st.printed,
                             <<"Linea", line_num,
                               st.fields[Head(date_column_indices) + 1],
                               repaired_value>>)
                 ELSE st.printed]
        ELSE [st EXCEPT !.calls = @ + 1])

\* for line_num, line in enumerate(lines), lines 132-161: line_num is
\* counted from 0
RECURSIVE RepairLoop(_, _, _, _, _, _)
RECURSIVE RepairedLine(_, _, _, _, _, _)
RepairLoop(lines, line_num, date_column_indices, clk, repaired_lines, st) ==
    IF line_num >= Len(lines)
    THEN [repaired_lines |-> repaired_lines, st |-> st]
    ELSE IF line_num < 2
    THEN RepairLoop(lines, line_num + 1, date_column_indices, clk,
                    Append(repaired_lines, Strip(lines[line_num + 1])), st)
    ELSE RepairedLine(lines, line_num, date_column_indices, clk, repaired_lines,
             RepairFields(date_column_indices, line_num, clk,
                 [st EXCEPT !.fields = Split(Strip(lines[line_num + 1]))]))

\* lines 157-161, with the fields as the inner loop left them
RepairedLine(lines, line_num, date_column_indices, clk, repaired_lines, st) ==
    RepairLoop(lines, line_num + 1, date_column_indices, clk,
               Append(repaired_lines, Join(st.fields)),
               IF line_num % 100 = 0 /\ line_num > 0
               THEN [st EXCEPT !.printed = Append(@, <<"Procesadas", line_num>>)]
               ELSE st)

\* lines 163-177, with what the loop left
Written(r, date_columns) ==
    [kind |-> "output_file",
     written |-> [k \in 1..Len(r.repaired_lines) |->
                     r.repaired_lines[k] \o <<"\n">>],
     corrections_made |-> r.st.corrections_made,
     printed |->
         r.st.printed
         \o <<<<"REPARACION DE FECHAS COMPLETADA">>,
              <<"Lineas procesadas", Len(r.repaired_lines)>>,
              <<"Correcciones de fecha aplicadas", r.st.corrections_made>>,
              <<"Columnas de fecha identificadas",
                [k \in 1..Len(date_columns) |-> date_columns[k][2]]>>>>]

\* str.replace(old, new): every occurrence, from the left
RECURSIVE replace(_, _, _)
replace(s, old, new) ==
    IF Len(s) < Len(old) THEN s
    ELSE IF SubSeq(s, 1, Len(old)) = old
    THEN new \o replace(Drop(s, Len(old)), old, new)
    ELSE <<Head(s)>> \o replace(Tail(s), old, new)

\* lines 109-110, for a call without output_file
output_file(csv_file) ==
    replace(csv_file, <<".", "c", "s", "v">>,
            <<"_", "f", "i", "x", "e", "d", ".", "c", "s", "v">>)

\* open(p, 'w') and the writes: the file p holds the lines written, every
\* other file is as it was
WriteFile(files, p, lines) ==
    [q \in DOMAIN files \cup {p} |-> IF q = p THEN lines ELSE files[q]]

\* headers, problematic_lines, date_columns = analyze_date_problems(...)
\* and the lines after it; analysis is what the call returned.  fault: the
\* file cannot be read again or the output file cannot be opened
RepairStage(analysis, f, clk, fault) ==
    IF analysis.len # 3
    THEN [kind |-> "raise", exc |-> "ValueError", printed |-> <<>>]
    ELSE IF analysis.t1.kind = "None" \/ analysis.t1.items = <<>>
    THEN [kind |-> "None",
          printed |-> <<<<"No se puede proceder con la reparacion">>>>]
    ELSE IF ~f.exists \/ fault
    THEN [kind |-> "None",
          printed |-> <<<<"ERROR durante la reparacion",
                          IF ~f.exists THEN "FileNotFoundError" ELSE "OSError">>>>]
    ELSE Written(RepairLoop(f.lines, 0,
                            [k \in 1..Len(analysis.t3) |-> analysis.t3[k][1]],
                            clk, <<>>,
                            [fields |-> <<>>, corrections_made |-> 0,
                             calls |-> 0, printed |-> <<>>]),
                 analysis.t3)

\* repair_date_issues as one call on a file that can be read
repair_date_issues(f, clk) ==
    RepairStage(analyze_date_problems(f, FALSE).ret, f, clk, FALSE)

(***************************************************************************)
(* validate_date_repair.  The call's outcome: what it returned, what it    *)
(* printed and the files on disk as it left them.  f is the file at        *)
(* repaired_file.  The function prints, for every date column, the types,  *)
(* values and counts that pd.to_datetime(format='mixed') gives, or the     *)
(* error of that conversion: of these lines only the first is kept, as     *)
(* none of them changes what is returned or what is on disk.               *)
(***************************************************************************)
\* Mutant: the validation stores the DataFrame it read back into the file.
validate_date_repair_Rewrites(f, files, repaired_file, fault) ==
    LET d == IF fault THEN Raise("OSError") ELSE read_csv(f, 1, "error") IN
    IF IsRaise(d)
    THEN [ret |-> "False", files |-> files,
          printed |-> <<<<"ERROR durante la validacion", d.exc>>>>]
    ELSE [ret |-> "True",
          files |-> [files EXCEPT ![repaired_file] = <<Join(d.columns) \o <<"\n">>>>],
          printed |-> <<<<"Filas", Len(d.rows)>>, <<"VALIDACION COMPLETADA">>>>]

validate_date_repair(f, files, repaired_file, fault) ==
    LET d == IF fault THEN Raise("OSError") ELSE read_csv(f, 1, "error") IN
    IF IsRaise(d)
    THEN [ret |-> "False", files |-> files,
          printed |-> <<<<"ERROR durante la validacion", d.exc>>>>]
    ELSE LET date_cols ==
                 SelectSeq(d.columns,
                           LAMBDA col : \E k \in 1..Len(header_keywords) :
                                           Contains(upper(col), header_keywords[k]))
         IN  [ret |-> "True", files |-> files,
              printed |->
                  <<<<"Filas", Len(d.rows)>>, <<"Columnas", d.columns>>,
                    <<"Columnas de fecha identificadas", date_cols>>>>
                  \o [k \in 1..Len(date_cols) |->
                         <<"ANALISIS DE LA COLUMNA", date_cols[k]>>]
                  \o <<<<"VALIDACION COMPLETADA">>>>]

(***************************************************************************)
(* The files the loaders are run on                                        *)
(***************************************************************************)
Line(fields) == Join(fields) \o <<"\n">>

SeqsUpTo(S, n) == UNION {[1..k -> S] : k \in 0..n}

MetaLine == <<"WigleWifi", ",", "appRelease", "\n">>

CsvFile(lines) == [exists |-> TRUE, utf8 |-> TRUE, lines |-> lines]

BadBytes(f) == [f EXCEPT !.utf8 = FALSE]

NoFile == [exists |-> FALSE, utf8 |-> TRUE, lines |-> <<>>]

\* field texts
net == <<"net">>
abc == <<"abc">>
m55 == <<"-", "5", "5">>
m70 == <<"-", "7", "0">>
c11 == <<"1", "1">>
c6 == <<"6">>
NA == <<"N/A">>

InterfHeaders == {<<SSID, RSSI, Channel>>, <<SSID, Channel>>, <<SSID, RSSI>>}

InterfRecords ==
    {<<net, m55, c11>>,                   \* well-formed
     <<net, abc, c6>>,                    \* RSSI not numeric
     <<net, m55, NA>>,                    \* Channel not numeric
     <<net, m70, c6, <<"x">>, <<"y">>>>,  \* two extra trailing fields
     <<net, m55>>,                        \* a field short
     <<<<>>>>}                            \* blank line

InterfFiles ==
    {CsvFile(<<MetaLine, Line(h)>> \o [k \in DOMAIN recs |-> Line(recs[k])]) :
        h \in InterfHeaders, recs \in SeqsUpTo(InterfRecords, MaxDataLines)}

ShortFiles == {CsvFile(<<>>), CsvFile(<<MetaLine>>)}

\* read_csv takes the fields a first record has beyond the header for an
\* index; the loaders are run on files whose first record does not.
FirstRecordFits(f) ==
    LET body == SelectSeq(SubSeq(f.lines, 2, Len(f.lines)), LAMBDA l : ~IsBlank(l))
    IN  Len(body) >= 2 => Len(Split(Chomp(body[2]))) <= Len(Split(Chomp(body[1])))

\* cargar_datos: header lines with canonical names, with aliases (in an
\* order other than the declared one), without FirstSeen, without RSSI
\* and with names to strip, with every required name, and with names in
\* another letter case
WardrivingHeaders ==
    {<<SSID, FirstSeen, Channel, RSSI, CurrentLatitude, CurrentLongitude>>,
     <<SSID, Timestamp, <<"CH">>, <<"channel">>, <<"Signal">>, <<"rssi">>,
       <<"Lat">>, <<"Lon">>>>,
     <<SSID, Channel, RSSI, CurrentLatitude, CurrentLongitude>>,
     <<SSID, <<"FirstSeen", " ">>, <<" ", "Channel">>, CurrentLatitude,
       CurrentLongitude>>,
     columnas_requeridas,
     <<SSID, FirstSeen, <<"CHANNEL">>, <<"Rssi">>, CurrentLatitude,
       CurrentLongitude>>}

date1 == <<"2", "0", "2", "4", "-", "0", "1", "-", "0", "5">>
c40 == <<"4", "0">>
m3 == <<"-", "3">>

WardrivingRecords ==
    {[fs |-> date1, ch |-> c6, rssi |-> m55, lat |-> c40, lon |-> m3, extra |-> FALSE],
     [fs |-> date1, ch |-> abc, rssi |-> m55, lat |-> c40, lon |-> m3, extra |-> FALSE],
     [fs |-> <<"WPA">>, ch |-> c11, rssi |-> abc, lat |-> c40, lon |-> m3, extra |-> FALSE],
     [fs |-> date1, ch |-> c6, rssi |-> m55, lat |-> NA, lon |-> m3, extra |-> FALSE],
     [fs |-> date1, ch |-> c6, rssi |-> m70, lat |-> c40, lon |-> <<"x">>, extra |-> FALSE],
     [fs |-> date1, ch |-> c6, rssi |-> m55, lat |-> c40, lon |-> m3, extra |-> TRUE]}

\* the field of a record under a header name; the columns CH and Signal
\* hold values of their own
CellFor(name, rec) ==
    CASE Strip(name) \in {FirstSeen, Timestamp} -> rec.fs
      [] Strip(name) \in {Channel, <<"channel">>, <<"CHANNEL">>} -> rec.ch
      [] Strip(name) = <<"CH">> -> <<"9">>
      [] Strip(name) \in {RSSI, <<"rssi">>, <<"Rssi">>} -> rec.rssi
      [] Strip(name) = <<"Signal">> -> <<"-", "1">>
      [] Strip(name) \in {CurrentLatitude, <<"Lat">>} -> rec.lat
      [] Strip(name) \in {CurrentLongitude, <<"Lon">>} -> rec.lon
      [] OTHER -> net

RecordLine(h, rec) ==
    Line([k \in 1..Len(h) |-> CellFor(h[k], rec)]
         \o (IF rec.extra THEN <<<<"x">>>> ELSE <<>>))

WardrivingFiles ==
    {CsvFile(<<MetaLine, Line(h)>> \o [k \in DOMAIN recs |-> RecordLine(h, recs[k])]) :
        h \in WardrivingHeaders, recs \in SeqsUpTo(WardrivingRecords, MaxDataLines)}

\* files that start with the header line, without a metadata line
NoMetaFiles ==
    {CsvFile(<<Line(h)>> \o [k \in DOMAIN recs |-> RecordLine(h, recs[k])]) :
        h \in {<<SSID, FirstSeen, Channel, RSSI, CurrentLatitude, CurrentLongitude>>},
        recs \in SeqsUpTo({r \in WardrivingRecords : ~r.extra}, 1)}

\* values of a date column
DateValues ==
    {<<>>,
     <<" ">>,
     <<"W", "P", "A", "2">>,
     <<" ", "o", "p", "e", "n", " ">>,
     <<"n", "/", "a">>,
     <<"W", "P", "A", "3">>,
     <<"2", "0", "2", "4", "-", "0", "3", "-", "1", "5", " ", "1", "0", ":", "3", "0", ":", "0", "0">>,
     <<"1", "5", "/", "0", "3", "/", "2", "0", "2", "4", " ", "1", "0", ":", "3", "0", ":", "0", "0">>,
     <<"0", "3", "/", "0", "4", "/", "2", "0", "2", "4", " ", "1", "0", ":", "3", "0", ":", "0", "0">>,
     <<"0", "3", "/", "1", "5", "/", "2", "0", "2", "4", " ", "1", "0", ":", "3", "0", ":", "0", "0">>,
     <<"2", "0", "2", "4", "/", "0", "3", "/", "1", "5", " ", "1", "0", ":", "3", "0", ":", "0", "0">>,
     <<"1", "5", "-", "0", "3", "-", "2", "0", "2", "4", " ", "1", "0", ":", "3", "0", ":", "0", "0">>,
     <<"0", "3", "-", "1", "5", "-", "2", "0", "2", "4", " ", "1", "0", ":", "3", "0", ":", "0", "0">>,
     <<"2", "0", "2", "4", "0", "3", "1", "5", "1", "0", "3", "0", "0", "0">>,
     <<"3", "1", "/", "0", "2", "/", "2", "0", "2", "4", " ", "1", "0", ":", "3", "0", ":", "0", "0">>,
     <<"5", "/", "3", "/", "2", "0", "2", "4", " ", "7", ":", "0", "5", ":", "0", "9">>,
     <<"2", "0", "2", "4", "-", "0", "3", "-", "1", "5", " ", " ", "1", "0", ":", "3", "0", ":", "0", "0">>,
     <<"f", "o", "o">>,
     <<" ", "f", "o", "o", " ">>,
     <<"2", "0", "2", "4", "-", "0", "1", "-", "0", "5">>,
     <<"S", "a", "m", "p", "l", "e">>,
     <<"1", "2", "-", "2", "5", "-", "2", "0", "2", "3">>,
     <<"2", "9", "/", "0", "2", "/", "2", "0", "2", "3", " ", "1", "0", ":", "3", "0", ":", "0", "0">>}

\* depurador_csv.py: a metadata line and a header line, as they come and
\* with blanks at their ends; a header with two date columns; a header with
\* no date column; a header of three date columns
DateHeads ==
    {<<<<"W", "i", "g", "l", "e", ",", "1", "\n">>,
       <<"S", "S", "I", "D", ",", "F", "i", "r", "s", "t", "S", "e", "e", "n", "\n">>>>,
     <<<<"W", "i", "g", "l", "e", ",", "1", " ", "\n">>,
       <<" ", "F", "i", "r", "s", "t", "S", "e", "e", "n", ",", "S", "S", "I", "D", ",", "L", "a", "s", "t", " ", "s", "e", "e", "n", " ", "\n">>>>,
     <<<<"W", "i", "g", "l", "e", ",", "1", "\n">>,
       <<"S", "S", "I", "D", ",", "A", "u", "t", "h", "M", "o", "d", "e", "\n">>>>,
     <<<<"W", "i", "g", "l", "e", ",", "1", "\n">>,
       <<"F", "i", "r", "s", "t", ",", "L", "a", "s", "t", ",", "T", "i", "m", "e", "\n">>>>}

DateRecords ==
    {<<<<"n", "e", "t">>, <<"2", "0", "2", "4", "-", "0", "3", "-", "1", "5", " ", "1", "0", ":", "3", "0", ":", "0", "0">>>>,
     <<<<"n", "e", "t">>, <<"W", "P", "A", "2">>>>,
     <<<<"1", "5", "/", "0", "3", "/", "2", "0", "2", "4", " ", "1", "0", ":", "3", "0", ":", "0", "0">>, <<" ", "f", "o", "o", " ">>, <<"o", "p", "e", "n">>>>,
     <<<<"W", "P", "A">>, <<"f", "o", "o">>, <<"2", "0", "2", "4", "-", "0", "1", "-", "0", "5">>>>,
     <<<<"n", "e", "t">>>>,
     <<<<" ", "n", "e", "t">>, <<"W", "P", "A", "2">>>>,
     <<<<>>>>}

DateFiles ==
    {CsvFile(h \o [k \in DOMAIN recs |-> Line(recs[k])]) :
        h \in DateHeads, recs \in SeqsUpTo(DateRecords, MaxDateLines)}

\* datetime.now() at the start of the call, and the seconds it advances
\* from one call of repair_date_field to the next
Moments == {Moment(2026, 11, 2, 9, 15, 7), Moment(2026, 11, 2, 9, 15, 8)}

Clocks == {[start |-> t, step |-> n] : t \in Moments, n \in {0, 1}}

NoClock == [start |-> Moment(2026, 11, 2, 9, 15, 7), step |-> 0]

Entries ==
    {"analyze_wifi_interference", "manual_csv_loader", "cargar_datos",
     "looks_like_date", "repair_date_field", "repair_date_issues", "main",
     "validate_date_repair"}

FilesOf(e) ==
    CASE e = "analyze_wifi_interference" ->
            LET fs == {f \in InterfFiles : FirstRecordFits(f)} \cup ShortFiles
            IN  fs \cup {BadBytes(f) : f \in fs} \cup {NoFile}
      [] e = "manual_csv_loader" -> InterfFiles \cup ShortFiles \cup {NoFile}
      [] e = "cargar_datos" ->
            LET fs == {f \in WardrivingFiles : FirstRecordFits(f)}
                         \cup NoMetaFiles \cup ShortFiles
            IN  fs \cup {BadBytes(f) : f \in NoMetaFiles} \cup {NoFile}
      [] e \in {"repair_date_issues", "main"} ->
            DateFiles \cup ShortFiles \cup {NoFile}
      [] e = "validate_date_repair" ->
            LET fs == {f \in DateFiles : FirstRecordFits(f)} \cup ShortFiles
            IN  fs \cup {BadBytes(f) : f \in ShortFiles} \cup {NoFile}
      [] OTHER -> {NoFile}

\* the paths given to depurador_csv.py: with the extension .csv, with it
\* in capitals, with .csv twice
Paths ==
    {<<"w", ".", "c", "s", "v">>,
     <<"w", ".", "C", "S", "V">>,
     <<"a", ".", "c", "s", "v", "/", "b", ".", "c", "s", "v">>}

\* the other paths are tried on the files of at most PathFileLines lines,
\* at one moment of the clock
PathFileLines == 3

PathsOf(e, f, clk) ==
    IF /\ e = "repair_date_issues"
       /\ ~f.exists \/ Len(f.lines) <= PathFileLines
       /\ clk = NoClock
    THEN Paths
    ELSE {<<"w", ".", "c", "s", "v">>}

\* the files on disk at the call
Disk(p, f) == IF f.exists THEN [q \in {p} |-> f.lines] ELSE [q \in {} |-> <<>>]

ArgsOf(e) ==
    IF e \in {"looks_like_date", "repair_date_field"} THEN DateValues ELSE {<<>>}

\* the clocks of a run over a whole file: one that stands still and one
\* that starts a second later and advances
FileClocks ==
    {clk \in Clocks : (clk.start = NoClock.start) <=> (clk.step = 0)}

ClocksOf(e) ==
    CASE e = "repair_date_field" -> Clocks
      [] e = "repair_date_issues" -> FileClocks
      [] OTHER -> {NoClock}

StartOf(e) ==
    CASE e = "analyze_wifi_interference" -> "cascade"
      [] e = "manual_csv_loader" -> "manual_call"
      [] e = "cargar_datos" -> "load"
      [] e = "looks_like_date" -> "looks_like_date"
      [] e = "repair_date_field" -> "repair_date_field"
      [] e = "repair_date_issues" -> "analyze"
      [] e = "main" -> "main"
      [] e = "validate_date_repair" -> "validate"

Init ==
    /\ entry \in Entries
    /\ file \in FilesOf(entry)
    /\ arg \in ArgsOf(entry)
    /\ clock \in ClocksOf(entry)
    /\ path \in PathsOf(entry, file, clock)
    /\ disk = Disk(path, file)
    /\ pc = StartOf(entry)
    /\ strat = 1
    /\ log = <<>>
    /\ raw = None
    /\ df = None
    /\ out = None
    /\ corrected = 0
    /\ resolved = None
    /\ result = "pending"

(***************************************************************************)
(* robust_csv_loader: one iteration of the loop over strategies.  A read   *)
(* that the file's text lets succeed can still fail for a reason outside   *)
(* the text (an I/O error).                                                *)
(***************************************************************************)
Faults(r) == IF IsDF(r) THEN BOOLEAN ELSE {FALSE}

\* Mutant: the loop does not return on success.
CascadeStep_ContinueAfterSuccess(i, r) ==
    IF i < NumStrategies THEN [pc |-> "cascade", strat |-> i + 1]
    ELSE [pc |-> "manual", strat |-> i + 1]

\* Mutant: None is returned after the last strategy, without manual recovery.
CascadeStep_SkipManual(i, r) ==
    IF IsDF(r) THEN [pc |-> "loaded", strat |-> i]
    ELSE IF i < NumStrategies THEN [pc |-> "cascade", strat |-> i + 1]
    ELSE [pc |-> "loaded", strat |-> i + 1]

\* Where the loop goes after strategy i gave r: return on success, continue
\* on an exception, manual recovery after the last strategy.
CascadeStep(i, r) ==
    IF IsDF(r) THEN [pc |-> "loaded", strat |-> i]
    ELSE IF i < NumStrategies THEN [pc |-> "cascade", strat |-> i + 1]
    ELSE [pc |-> "manual", strat |-> i + 1]

TryStrategy ==
    /\ pc = "cascade"
    /\ \E fault \in Faults(strategies(strat, file)) :
         LET r == IF fault THEN Raise("OSError") ELSE strategies(strat, file)
         IN  /\ pc' = CascadeStep(strat, r).pc
             /\ strat' = CascadeStep(strat, r).strat
             /\ IF IsDF(r)
                THEN /\ log' = log \o <<<<"Intentando estrategia", strat>>,
                                        <<"Estrategia exitosa", strat, Len(r.rows)>>>>
                     /\ df' = r
                     /\ raw' = r
                ELSE /\ log' = log \o <<<<"Intentando estrategia", strat>>,
                                        <<"Estrategia fallo", strat, r.exc>>>>
                     /\ UNCHANGED <<df, raw>>
    /\ UNCHANGED <<entry, file, path, disk, arg, clock, out, corrected, resolved, result>>

\* robust_csv_loader after the loop: manual recovery, or None
ManualRecovery ==
    /\ pc = "manual"
    /\ \E fault \in Faults(manual_csv_loader(file)) :
         LET r == IF fault THEN Raise("OSError") ELSE manual_csv_loader(file)
         IN  IF IsDF(r)
             THEN /\ log' = log \o <<<<"Intentando carga manual">>>> \o r.printed
                  /\ df' = DataFrame(r.columns, r.rows)
                  /\ raw' = DataFrame(r.columns, r.rows)
                  /\ corrected' = r.problematic_lines
             ELSE /\ log' = log \o <<<<"Intentando carga manual">>,
                                     <<"Carga manual fallo", r.exc>>>>
                  /\ df' = None
                  /\ raw' = None
                  /\ corrected' = corrected
    /\ pc' = "loaded"
    /\ UNCHANGED <<entry, file, path, disk, arg, clock, strat, out, resolved, result>>

\* Mutant: an empty dataset is handed on.
StageReturn_NoEmptyCheck(r) ==
    IF IsRaise(r) THEN "None" ELSE "dataset"

\* What the load-and-clean stage of analyze_wifi_interference yields after
\* clean_and_validate_data gave r: None for an exception and for an empty
\* dataset.
StageReturn(r) ==
    IF IsRaise(r) THEN "None"
    ELSE IF Len(r.returned.rows) = 0 THEN "None"
    ELSE "dataset"

\* analyze_wifi_interference from the loader's return to the end of its try
\* block.
CleanAndValidate ==
    /\ pc = "loaded"
    /\ IF df = None
       THEN /\ log' = log \o <<<<"No se pudo cargar el archivo con ninguna estrategia">>>>
            /\ result' = "None"
            /\ UNCHANGED <<df, out>>
       ELSE LET r == clean_and_validate_data(df)
            IN  /\ df' = r.mutated
                /\ result' = StageReturn(r)
                /\ IF IsRaise(r)
                   THEN /\ log' = log \o r.printed
                                      \o <<<<"Error al procesar el archivo", r.exc>>>>
                        /\ out' = out
                   ELSE /\ out' = r.returned
                        /\ IF StageReturn(r) = "None"
                           THEN log' = log \o r.printed
                                    \o <<<<"No hay datos validos despues de la limpieza">>>>
                           ELSE log' = log \o r.printed
                                    \o <<<<"Archivo procesado correctamente">>,
                                         <<"Filas validas", Len(r.returned.rows)>>>>
    /\ pc' = "done"
    /\ UNCHANGED <<entry, file, path, disk, arg, clock, strat, raw, corrected, resolved>>

\* manual_csv_loader called on its own
CallManualLoader ==
    /\ pc = "manual_call"
    /\ LET r == manual_csv_loader(file)
       IN  IF IsDF(r)
           THEN /\ log' = log \o r.printed
                /\ df' = DataFrame(r.columns, r.rows)
                /\ raw' = DataFrame(r.columns, r.rows)
                /\ corrected' = r.problematic_lines
                /\ result' = "dataset"
           ELSE /\ log' = log
                /\ result' = r.exc
                /\ UNCHANGED <<df, raw, corrected>>
    /\ pc' = "done"
    /\ UNCHANGED <<entry, file, path, disk, arg, clock, strat, out, resolved>>

(***************************************************************************)
(* cargar_datos.  read_csv without skiprows takes the metadata line for    *)
(* the header; only the column names of that reading are used, unless one  *)
(* of them holds 'SSID'.  error_bad_lines / warn_bad_lines are arguments   *)
(* of pandas before 2.0 only: with a later pandas the third read raises    *)
(* TypeError.                                                              *)
(***************************************************************************)
\* lines 38-50: the existence check and the first read
CargarLoad ==
    /\ pc = "load"
    /\ IF ~file.exists
       THEN /\ log' = log \o <<<<"El archivo no existe">>>>
            /\ result' = "False"
            /\ pc' = "done"
            /\ UNCHANGED <<df, raw>>
       ELSE \E fault \in Faults(read_csv(file, 1, "warn")) :
              LET r == IF fault THEN Raise("OSError") ELSE read_csv(file, 1, "warn")
              IN  IF IsDF(r)
                  THEN /\ log' = log \o <<<<"Datos cargados con engine de Python">>>>
                       /\ df' = r
                       /\ raw' = r
                       /\ pc' = "resolve"
                       /\ result' = result
                  ELSE /\ log' = log \o <<<<"Primer intento fallo", r.exc>>,
                                          <<"Intentando metodo alternativo">>>>
                       /\ pc' = "fallback"
                       /\ UNCHANGED <<df, raw, result>>
    /\ UNCHANGED <<entry, file, path, disk, arg, clock, strat, out, corrected, resolved>>

\* lines 52-64, and the outer except of lines 131-133
CargarFallback ==
    /\ pc = "fallback"
    /\ \E fault \in Faults(read_csv(file, 0, "skip")), legacy \in BOOLEAN :
         LET temp_df == IF fault THEN Raise("OSError") ELSE read_csv(file, 0, "skip")
             header_found == IsDF(temp_df) /\ Len(temp_df.columns) > 1
                                /\ HasSSIDColumn(temp_df)
             r == IF IsRaise(temp_df) \/ header_found THEN temp_df
                  ELSE IF legacy THEN read_csv(file, 1, "skip")
                  ELSE Raise("TypeError")
         IN  IF IsDF(r)
             THEN /\ log' = log \o <<<<IF header_found
                                       THEN "Datos cargados sin skiprows"
                                       ELSE "Datos cargados con error_bad_lines=False">>>>
                  /\ df' = r
                  /\ raw' = r
                  /\ pc' = "resolve"
                  /\ result' = result
             ELSE /\ log' = log \o <<<<"Error al cargar datos", r.exc>>>>
                  /\ result' = "False"
                  /\ pc' = "done"
                  /\ UNCHANGED <<df, raw>>
    /\ UNCHANGED <<entry, file, path, disk, arg, clock, strat, out, corrected, resolved>>

\* lines 66-99: the empty check, the column names, the column mapping
CargarResolve ==
    /\ pc = "resolve"
    /\ IF IsEmpty(df)
       THEN /\ log' = log \o <<<<"No se pudieron cargar datos validos">>>>
            /\ result' = "False"
            /\ pc' = "done"
            /\ UNCHANGED <<df, resolved>>
       ELSE LET d == StripColumns(df)
                columnas_faltantes ==
                    SelectSeq(columnas_requeridas, LAMBDA col : ~HasColumn(d, col))
                m == MapColumns(d, columnas_faltantes, <<>>)
            IN  /\ log' = log
                       \o (IF columnas_faltantes # <<>>
                           THEN <<<<"Columnas faltantes", columnas_faltantes>>,
                                  <<"Columnas disponibles", d.columns>>>>
                           ELSE <<>>)
                       \o m.printed
                /\ df' = m.df
                /\ resolved' = m.df
                /\ pc' = "coerce"
                /\ result' = result
    /\ UNCHANGED <<entry, file, path, disk, arg, clock, strat, raw, out, corrected>>

\* lines 102-113, and the except of lines 127-129
CargarCoerce ==
    /\ pc = "coerce"
    /\ IF ~HasColumn(df, FirstSeen)
       THEN /\ log' = log \o <<<<"Error al preparar datos", "KeyError">>>>
            /\ result' = "False"
            /\ pc' = "done"
            /\ df' = df
       ELSE /\ df' = CoerceColumns(df)
            /\ pc' = "coords"
            /\ UNCHANGED <<log, result>>
    /\ UNCHANGED <<entry, file, path, disk, arg, clock, strat, raw, out, corrected, resolved>>

\* lines 115-125
CargarCoords ==
    /\ pc = "coords"
    /\ df' = CleanCoordinates(df)
    /\ log' = log \o <<<<"Datos preparados", Len(CleanCoordinates(df).rows)>>>>
    /\ result' = "True"
    /\ pc' = "done"
    /\ UNCHANGED <<entry, file, path, disk, arg, clock, strat, raw, out, corrected, resolved>>

(***************************************************************************)
(* depurador_csv.py                                                        *)
(***************************************************************************)
\* looks_like_date called on its own
CallLooksLikeDate ==
    /\ pc = "looks_like_date"
    /\ result' = IF looks_like_date(arg) THEN "True" ELSE "False"
    /\ pc' = "done"
    /\ UNCHANGED <<entry, file, path, disk, arg, clock, strat, log, raw, df, out, corrected, resolved>>

\* repair_date_field called on its own
CallRepairDateField ==
    /\ pc = "repair_date_field"
    /\ out' = [kind |-> "str", text |-> repair_date_field(arg, Now(clock, 0))]
    /\ result' = "value"
    /\ pc' = "done"
    /\ UNCHANGED <<entry, file, path, disk, arg, clock, strat, log, raw, df, corrected, resolved>>

\* main with --solo-analisis, lines 366-374
MainStart ==
    /\ pc = "main"
    /\ IF ~file.exists
       THEN /\ log' = log \o <<<<"Error: El archivo no existe">>>>
            /\ result' = "SystemExit"
            /\ pc' = "done"
       ELSE /\ log' = log \o <<<<"REPARADOR ESPECIALIZADO EN PROBLEMAS DE FECHA">>>>
            /\ result' = result
            /\ pc' = "analyze"
    /\ UNCHANGED <<entry, file, path, disk, arg, clock, strat, raw, df, out, corrected, resolved>>

\* the call of analyze_date_problems, from main or from repair_date_issues
\* (lines 109-115)
AnalyzeDateProblems ==
    /\ pc = "analyze"
    /\ \E fault \in (IF file.exists THEN BOOLEAN ELSE {FALSE}) :
         \E a \in {analyze_date_problems(file, fault)} :
             /\ raw' = a.ret
             /\ log' = log
                    \o (IF entry = "repair_date_issues"
                        THEN <<<<"REPARANDO PROBLEMAS DE FECHA">>>> ELSE <<>>)
                    \o <<<<"ANALIZANDO PROBLEMAS DE FECHA EN">>>> \o a.printed
    /\ pc' = "unpack"
    /\ UNCHANGED <<entry, file, path, disk, arg, clock, strat, df, out, corrected, resolved, result>>

\* repair_date_issues from the unpacking of line 115 on
RepairDateIssues ==
    /\ pc = "unpack"
    /\ entry = "repair_date_issues"
    /\ \E fault \in (IF raw.len = 3 /\ raw.t1.kind = "list" THEN BOOLEAN ELSE {FALSE}) :
         \E r \in {RepairStage(raw, file, clock, fault)} :
             /\ log' = log \o r.printed
             /\ result' = IF r.kind = "raise" THEN r.exc ELSE r.kind
             /\ IF r.kind = "output_file"
                THEN /\ out' = [kind |-> "file", lines |-> r.written]
                     /\ disk' = WriteFile(disk, output_file(path), r.written)
                     /\ corrected' = r.corrections_made
                ELSE UNCHANGED <<out, disk, corrected>>
    /\ pc' = "done"
    /\ UNCHANGED <<entry, file, path, arg, clock, strat, raw, df, resolved>>

\* main with --solo-analisis, lines 376-394
MainSoloAnalisis ==
    /\ pc = "unpack"
    /\ entry = "main"
    /\ IF raw.len # 3
       THEN /\ result' = "ValueError"
            /\ log' = log
       ELSE /\ result' = "completed"
            /\ log' = log
                   \o <<IF raw.t2 # <<>>
                        THEN <<"RESUMEN: problemas de fecha", Len(raw.t2)>>
                        ELSE <<"RESUMEN: No se encontraron problemas de fecha evidentes">>,
                        <<"PROCESO COMPLETADO">>>>
    /\ pc' = "done"
    /\ UNCHANGED <<entry, file, path, disk, arg, clock, strat, raw, df, out, corrected, resolved>>

\* validate_date_repair called on a file
ValidateDateRepair ==
    /\ pc = "validate"
    /\ \E fault \in Faults(read_csv(file, 1, "error")) :
         \E v \in {validate_date_repair(file, disk, path, fault)} :
             /\ log' = log \o <<<<"VALIDANDO REPARACION DE FECHAS">>>> \o v.printed
             /\ disk' = v.files
             /\ result' = v.ret
    /\ pc' = "done"
    /\ UNCHANGED <<entry, file, path, arg, clock, strat, raw, df, out, corrected, resolved>>

Next ==
    \/ TryStrategy
    \/ ManualRecovery
    \/ CleanAndValidate
    \/ CallManualLoader
    \/ CargarLoad
    \/ CargarFallback
    \/ CargarResolve
    \/ CargarCoerce
    \/ CargarCoords
    \/ CallLooksLikeDate
    \/ CallRepairDateField
    \/ MainStart
    \/ AnalyzeDateProblems
    \/ RepairDateIssues
    \/ MainSoloAnalisis
    \/ ValidateDateRepair

Spec == Init /\ [][Next]_vars

(***************************************************************************)
(* Reading the diagnostic stream and the file                              *)
(***************************************************************************)
Printed(tag) == {p \in DOMAIN log : log[p][1] = tag}

SucceededBefore(p) == \E q \in 1..(p - 1) : log[q][1] = "Estrategia exitosa"

FailedBefore(j, p) ==
    \E q \in 1..(p - 1) : log[q][1] = "Estrategia fallo" /\ log[q][2] = j

AllStrategiesFailed == \A j \in 1..NumStrategies : FailedBefore(j, Len(log) + 1)

ManualAttempted == Printed("Intentando carga manual") # {}

ManualFailed == Printed("Carga manual fallo") # {}

Analyzing == entry = "analyze_wifi_interference"

\* the dataset in raw is manual_csv_loader's
LoadedManually ==
    \/ entry = "manual_csv_loader" /\ pc = "done" /\ result = "dataset"
    \/ Analyzing /\ ManualAttempted /\ raw # None

\* fields of a line, counted by its delimiters
FieldCount(line) ==
    1 + Cardinality({j \in 1..Len(Strip(line)) : Strip(line)[j] = ","})

DataLines == 3..Len(file.lines)

Mismatched == {i \in DataLines : FieldCount(file.lines[i]) # FieldCount(file.lines[2])}

Min(a, b) == IF a < b THEN a ELSE b

(***************************************************************************)
(* C1: robust_csv_loader attempts the four strategies in the order 1, 2,   *)
(* 3, 4; strategy i is attempted only after every strategy j < i failed; a *)
(* failure leads on to the next attempt and never ends the load; after the *)
(* first success nothing more is attempted (no later strategy, no manual   *)
(* recovery) and the loader returns that strategy's result.                *)
(***************************************************************************)
C1_CascadeOrder ==
    Analyzing =>
      /\ \A p \in DOMAIN log :
           /\ log[p][1] = "Intentando estrategia" =>
                /\ log[p][2] = Cardinality({q \in 1..(p - 1) :
                                   log[q][1] = "Intentando estrategia"}) + 1
                /\ log[p][2] <= NumStrategies
                /\ \A j \in 1..(log[p][2] - 1) : FailedBefore(j, p)
                /\ ~SucceededBefore(p)
           /\ log[p][1] = "Intentando carga manual" => ~SucceededBefore(p)
           /\ log[p][1] = "Estrategia exitosa" =>
                /\ pc \in {"loaded", "done"}
                /\ raw = strategies(log[p][2], file)
                /\ log[p][3] = Len(raw.rows)
      /\ (log # <<>> /\ log[Len(log)][1] = "Estrategia fallo") =>
           /\ pc = IF log[Len(log)][2] < NumStrategies THEN "cascade" ELSE "manual"
           /\ strat = log[Len(log)][2] + 1

\* strategies 1 and 2 failed and strategy 3 loaded the file
C1_Witness ==
    /\ Analyzing
    /\ pc = "loaded"
    /\ \E p \in Printed("Estrategia exitosa") : log[p][2] = 3
    /\ FailedBefore(1, Len(log)) /\ FailedBefore(2, Len(log))

(***************************************************************************)
(* C2: manual recovery is attempted if and only if all four strategies     *)
(* failed; when manual recovery fails too the loader returns None (nothing *)
(* is raised) and analyze_wifi_interference returns None.                  *)
(***************************************************************************)
C2_ManualRecoveryIffAllFailed ==
    Analyzing =>
      /\ ManualAttempted => AllStrategiesFailed
      /\ pc = "manual" <=> (AllStrategiesFailed /\ ~ManualAttempted)
      /\ (pc \in {"loaded", "done"} /\ AllStrategiesFailed) => ManualAttempted
      /\ ManualFailed =>
           /\ raw = None
           /\ pc = "loaded" => df = None
           /\ pc = "done" => result = "None" /\ out = None

\* a file that exists, all four strategies and manual recovery failed
C2_Witness ==
    /\ Analyzing
    /\ pc = "done"
    /\ file.exists
    /\ AllStrategiesFailed
    /\ ManualFailed
    /\ result = "None"

(***************************************************************************)
(* C3 as stated: ingestion of a file with N data rows, a of them with      *)
(* extra trailing fields and b others with a non-numeric Channel, yields   *)
(* exactly N - b rows.                                                     *)
(***************************************************************************)
FieldsOf(i) == Split(Strip(file.lines[i]))

WellFormed(i) ==
    /\ FieldCount(file.lines[i]) = 3
    /\ IsNumericText(FieldsOf(i)[2])
    /\ IsNumericText(FieldsOf(i)[3])

OverLong(i) ==
    /\ FieldCount(file.lines[i]) > 3
    /\ IsNumericText(FieldsOf(i)[2])
    /\ IsNumericText(FieldsOf(i)[3])

BadChannel(i) ==
    /\ FieldCount(file.lines[i]) = 3
    /\ IsNumericText(FieldsOf(i)[2])
    /\ ~IsNumericText(FieldsOf(i)[3])

Scenario ==
    /\ Analyzing
    /\ pc = "done"
    /\ raw # None
    /\ FieldsOf(2) = <<SSID, RSSI, Channel>>
    /\ \A i \in DataLines : WellFormed(i) \/ OverLong(i) \/ BadChannel(i)

ScenarioN == Cardinality(DataLines)
ScenarioA == Cardinality({i \in DataLines : OverLong(i)})
ScenarioB == Cardinality({i \in DataLines : BadChannel(i)})

C3_Original ==
    Scenario => out # None /\ Len(out.rows) = ScenarioN - ScenarioB

(***************************************************************************)
(* C3 amended: the result has N - b rows when the file was loaded by       *)
(* manual recovery, and N - a - b rows when a cascade strategy loaded it   *)
(* (strategies 2 and 3 leave the over-long rows out, strategies 1 and 4    *)
(* fail on them).                                                          *)
(***************************************************************************)
C3_Amended ==
    Scenario =>
      /\ out # None
      /\ Len(out.rows) = IF ManualAttempted
                         THEN ScenarioN - ScenarioB
                         ELSE ScenarioN - ScenarioA - ScenarioB

\* three data rows, one over-long and one with a bad Channel, loaded by a
\* cascade strategy: one row is left
C3_Witness ==
    /\ Scenario
    /\ ~ManualAttempted
    /\ ScenarioN = 3 /\ ScenarioA = 1 /\ ScenarioB = 1
    /\ Len(out.rows) = 1

(***************************************************************************)
(* C4: manual_csv_loader turns a line of k fields, under a header of n     *)
(* fields, into a row of exactly n cells: the k fields when k = n, the     *)
(* first n fields when k > n, the k fields followed by n - k missing       *)
(* values when k < n.                                                      *)
(***************************************************************************)
C4_ManualRowShape ==
    LoadedManually =>
      \A i \in DataLines :
        (i - 2) \in DOMAIN raw.rows =>
          LET n == FieldCount(file.lines[2])
              k == FieldCount(file.lines[i])
              row == raw.rows[i - 2]
          IN  /\ Len(row) = n
              /\ Len(raw.columns) = n
              /\ \A c \in 1..Len(row) :
                    row[c] = IF c <= k THEN Str(FieldsOf(i)[c]) ELSE NaN

\* one file with a row of each shape: k = n, k > n, k < n
C4_Witness ==
    /\ LoadedManually
    /\ \E i \in DataLines : FieldCount(file.lines[i]) = FieldCount(file.lines[2])
    /\ \E i \in DataLines : FieldCount(file.lines[i]) > FieldCount(file.lines[2])
    /\ \E i \in DataLines :
          /\ FieldCount(file.lines[i]) < FieldCount(file.lines[2])
          /\ raw.rows[i - 2][FieldCount(file.lines[2])] = NaN

(***************************************************************************)
(* C5: manual_csv_loader drops no row: it returns one row per line after   *)
(* the header line, blank lines included, in file order, and its           *)
(* correction count is the number of those lines whose field count         *)
(* differs from the header's.                                              *)
(***************************************************************************)
C5_ManualNeverDrops ==
    LoadedManually =>
      /\ Len(raw.rows) = Len(file.lines) - 2
      /\ raw.index = [k \in 1..(Len(file.lines) - 2) |-> k - 1]
      /\ \A i \in DataLines :
           /\ (i - 2) \in DOMAIN raw.rows
           /\ \A c \in 1..Min(FieldCount(file.lines[i]), Len(raw.rows[i - 2])) :
                 raw.rows[i - 2][c] = Str(FieldsOf(i)[c])
      /\ corrected = Cardinality(Mismatched)

\* three data lines, a blank one among them, two of them corrected
C5_Witness ==
    /\ LoadedManually
    /\ Len(raw.rows) = 3
    /\ \E i \in DataLines : Strip(file.lines[i]) = <<>>
    /\ corrected = 2

(***************************************************************************)
(* C6: clean_and_validate_data keeps a row if and only if both its RSSI    *)
(* and its Channel coerce to a number; kept rows carry the numbers         *)
(* ("-55", "11" kept as -55 and 11; "abc", "6" dropped); the kept rows     *)
(* stay in their order.                                                    *)
(***************************************************************************)
CleanReturned == Analyzing /\ pc = "done" /\ out # None

Coerces(c) == IsNum(to_numeric(c))

Kept == {out.index[j] + 1 : j \in DOMAIN out.index}

C6_CleanRetainsIffNumeric ==
    CleanReturned =>
      LET ri == ColIndex(raw, RSSI)
          ci == ColIndex(raw, Channel)
      IN  /\ Kept = {k \in DOMAIN raw.rows :
                        Coerces(raw.rows[k][ri]) /\ Coerces(raw.rows[k][ci])}
          /\ Len(out.rows) = Len(out.index)
          /\ \A j \in DOMAIN out.index :
               /\ j < Len(out.index) => out.index[j] < out.index[j + 1]
               /\ out.rows[j] =
                    [c \in DOMAIN raw.rows[out.index[j] + 1] |->
                       IF c \in {ri, ci}
                       THEN to_numeric(raw.rows[out.index[j] + 1][c])
                       ELSE raw.rows[out.index[j] + 1][c]]
               /\ IsNum(out.rows[j][ri]) /\ IsNum(out.rows[j][ci])
          /\ \A k \in DOMAIN raw.rows :
               /\ (raw.rows[k][ri] = Str(m55) /\ raw.rows[k][ci] = Str(c11)) =>
                     \E j \in DOMAIN out.rows :
                        /\ out.index[j] = k - 1
                        /\ out.rows[j][ri] = Num(-55)
                        /\ out.rows[j][ci] = Num(11)
               /\ (raw.rows[k][ri] = Str(abc) /\ raw.rows[k][ci] = Str(c6)) =>
                     (k \notin Kept)

\* "abc","6" dropped in front of a kept "-55","11"
C6_Witness ==
    /\ CleanReturned
    /\ Len(raw.rows) >= 2
    /\ raw.rows[1][ColIndex(raw, RSSI)] = Str(abc)
    /\ raw.rows[1][ColIndex(raw, Channel)] = Str(c6)
    /\ out.index = <<1>>
    /\ out.rows[1][ColIndex(raw, RSSI)] = Num(-55)
    /\ out.rows[1][ColIndex(raw, Channel)] = Num(11)

(***************************************************************************)
(* C7 as stated: in clean_and_validate_data and in cargar_datos alike, an  *)
(* RSSI or Channel cell that cannot be coerced to a number is a missing    *)
(* value in the coerced column, never another number, and no such cell     *)
(* aborts the ingestion.                                                   *)
(***************************************************************************)
Loading == entry = "cargar_datos"

NotNumeric(c) == ~(IsNum(c) \/ (IsStr(c) /\ IsNumericText(c[2])))

\* clean_and_validate_data: the caller's columns after the call
CleanCoercesToMissing ==
    (Analyzing /\ pc = "done" /\ raw # None) =>
      /\ \A col \in {RSSI, Channel} :
           HasColumn(raw, col) =>
             \A k \in DOMAIN raw.rows :
               NotNumeric(raw.rows[k][ColIndex(raw, col)]) =>
                  df.rows[k][ColIndex(df, col)] = NaN
      /\ (HasColumn(raw, RSSI) /\ HasColumn(raw, Channel)) => out # None

\* cargar_datos: the RSSI column after the coercions
LoadCoercesRSSIToMissing ==
    (Loading /\ pc = "coords" /\ HasColumn(resolved, RSSI)) =>
      \A k \in DOMAIN resolved.rows :
        NotNumeric(resolved.rows[k][ColIndex(resolved, RSSI)]) =>
           df.rows[k][ColIndex(df, RSSI)] = NaN

\* cargar_datos: with FirstSeen at hand no cell makes it return False
LoadNotAborted ==
    (Loading /\ resolved # None /\ HasColumn(resolved, FirstSeen)) =>
      /\ pc \in {"coerce", "coords", "done"}
      /\ result # "False"
      /\ pc = "done" => result = "True"

C8_SchemaGapNeverFatal ==
    /\ (Analyzing /\ pc = "done" /\ raw # None
          /\ (~HasColumn(raw, RSSI) \/ ~HasColumn(raw, Channel))) =>
         out # None
    /\ (Loading /\ pc = "done" /\ resolved # None
          /\ \E col \in Range(columnas_requeridas) : ~HasColumn(resolved, col)) =>
         result = "True"

NoRowSurvives ==
    \A k \in DOMAIN raw.rows :
       \/ NotNumeric(raw.rows[k][ColIndex(raw, RSSI)])
       \/ NotNumeric(raw.rows[k][ColIndex(raw, Channel)])

Observed == Range(StripColumns(raw).columns)

MappingLines(c) == {p \in Printed("Mapeada columna") : log[p][3] = c}

C10_ResolverFirstAlias ==
    (Loading /\ resolved # None) =>
      /\ \A c \in Range(columnas_requeridas) :
           LET al == mapeo_columnas(c)
               hits == {k \in 1..Len(al) : al[k] \in Observed}
           IN  IF c \in Observed \/ hits = {}
               THEN /\ MappingLines(c) = {}
                    /\ HasColumn(resolved, c) <=> c \in Observed
               ELSE LET first == CHOOSE k \in hits : \A j \in hits : k <= j
                    IN  /\ HasColumn(resolved, c)
                        /\ Column(resolved, c) = Column(StripColumns(raw), al[first])
                        /\ Cardinality(MappingLines(c)) = 1
                        /\ \A p \in MappingLines(c) : log[p][2] = al[first]
      /\ \A p \in Printed("Mapeada columna") : log[p][3] \in Range(columnas_requeridas)
      /\ \A name \in Observed :
            Column(resolved, name) = Column(StripColumns(raw), name)

\* both 'rssi' and 'Signal' are headers, 'Signal' first in the file: RSSI
\* is the copy of 'rssi'
C10_Witness ==
    /\ Loading
    /\ resolved # None
    /\ {<<"rssi">>, <<"Signal">>} \subseteq Observed
    /\ RSSI \notin Observed
    /\ Column(resolved, RSSI) = Column(resolved, <<"rssi">>)
    /\ Column(resolved, RSSI) # Column(resolved, <<"Signal">>)
    /\ Frequency \notin Range(resolved.columns)

(***************************************************************************)
(* C11  The column mapping of cargar_datos is idempotent.  When the        *)
(* header holds every required name, the mapping adds no column, changes   *)
(* no column and prints no mapping.  Whatever the header, running the      *)
(* mapping again on the DataFrame it left changes nothing and prints       *)
(* nothing.                                                                *)
(***************************************************************************)
Resolved == entry = "cargar_datos" /\ IsDF(resolved)

\* self.df when the mapping starts
Loaded == StripColumns(raw)

Missing(d) == SelectSeq(columnas_requeridas, LAMBDA col : ~HasColumn(d, col))

C11_ResolverIdempotent ==
    Resolved =>
        /\ Missing(Loaded) = <<>> =>
              /\ resolved = Loaded
              /\ Printed("Mapeada columna") = {}
              /\ Printed("Columnas faltantes") = {}
        /\ MapColumns(resolved, Missing(resolved), <<>>)
              = [df |-> resolved, printed |-> <<>>]

\* the mapping has run on a header with every required name
C11_Witness ==
    /\ Resolved
    /\ Missing(Loaded) = <<>>
    /\ Len(resolved.rows) > 0

(***************************************************************************)
(* C12  The column mapping matches names whatever their letter case: a     *)
(* header name that equals an accepted spelling of a required column (or   *)
(* the required name itself) up to letter case, such as Rssi or CHANNEL,   *)
(* gives the DataFrame that required column.                               *)
(***************************************************************************)
\* the spellings in the model's headers and in mapeo_columnas that differ
\* in letter case only
CaseClasses ==
    {{SSID, <<"ssid">>, <<"Ssid">>},
     {FirstSeen, <<"firstseen">>},
     {Channel, <<"channel">>, <<"CHANNEL">>},
     {<<"CH">>},
     {Frequency, <<"frequency">>},
     {RSSI, <<"rssi">>, <<"Rssi">>},
     {<<"Lat">>}, {<<"Lon">>}, {<<"Signal">>}, {Timestamp},
     {CurrentLatitude}, {CurrentLongitude}, {AuthMode},
     {<<"Latitude">>, <<"latitude">>}, {<<"Longitude">>, <<"longitude">>}}

SameUpToCase(a, b) == a = b \/ \E c \in CaseClasses : a \in c /\ b \in c

C12_CaseInsensitiveAliases ==
    Resolved =>
        \A k \in 1..Len(columnas_requeridas), h \in Observed :
            (\E a \in Range(mapeo_columnas(columnas_requeridas[k])) :
                SameUpToCase(h, a))
                => HasColumn(resolved, columnas_requeridas[k])

(***************************************************************************)
(* Reading the calls of depurador_csv.py                                   *)
(***************************************************************************)
\* values of a date field the claims speak of
v_empty == <<>>
v_blank == <<" ">>
v_wpa2 == <<"W", "P", "A", "2">>
v_open == <<" ", "o", "p", "e", "n", " ">>
v_iso == <<"2", "0", "2", "4", "-", "0", "3", "-", "1", "5", " ", "1", "0", ":", "3", "0", ":", "0", "0">>
v_dmy == <<"1", "5", "/", "0", "3", "/", "2", "0", "2", "4", " ", "1", "0", ":", "3", "0", ":", "0", "0">>
v_both == <<"0", "3", "/", "0", "4", "/", "2", "0", "2", "4", " ", "1", "0", ":", "3", "0", ":", "0", "0">>
v_mdy == <<"0", "3", "/", "1", "5", "/", "2", "0", "2", "4", " ", "1", "0", ":", "3", "0", ":", "0", "0">>
v_day == <<"2", "0", "2", "4", "-", "0", "1", "-", "0", "5">>
v_sample == <<"S", "a", "m", "p", "l", "e">>

FieldRepaired == entry = "repair_date_field" /\ pc = "done"

\* the sentinel values of rule 1
Sentinels ==
    {<<"W", "P", "A", "2">>, <<"W", "P", "A">>, <<"W", "E", "P">>,
     <<"O", "P", "N">>, <<"O", "P", "E", "N">>,
     <<"U", "N", "K", "N", "O", "W", "N">>, <<"N", "/", "A">>,
     <<"N", "U", "L", "L">>}

IsSentinel(v) == upper(Strip(v)) \in Sentinels

\* a text of the form YYYY-MM-DD HH:MM:SS
IsCanonical(s) ==
    /\ Len(s) = 19
    /\ s[5] = "-" /\ s[8] = "-" /\ s[11] = " " /\ s[14] = ":" /\ s[17] = ":"
    /\ \A k \in (1..19) \ {5, 8, 11, 14, 17} : IsDigit(s[k])

\* the formats that parse a text, and the first of them
ParsingFormats(s) ==
    {k \in 1..Len(formats_to_try) : strptime(Strip(s), formats_to_try[k]).ok}

Parseable(v) == ParsingFormats(v) # {}

FirstParsing(s) ==
    CHOOSE k \in ParsingFormats(s) : \A j \in ParsingFormats(s) : k <= j

(***************************************************************************)
(* C13  repair_date_field replaces a value by the current time, written    *)
(* YYYY-MM-DD HH:MM:SS, exactly when the value, trimmed and whatever its   *)
(* letter case, is one of WPA2, WPA, WEP, OPN, OPEN, UNKNOWN, N/A, NULL:   *)
(* what it returns for any other value does not depend on the time of the  *)
(* call.                                                                   *)
(***************************************************************************)
C13_SentinelRule ==
    FieldRepaired =>
        IF IsSentinel(arg)
        THEN /\ out.text = strftime(clock.start)
             /\ IsCanonical(out.text)
        ELSE \A t \in Moments : repair_date_field(arg, t) = out.text

\* a sentinel in lower case with blanks around it has been replaced
C13_Witness ==
    /\ FieldRepaired
    /\ arg = v_open
    /\ out.text = strftime(clock.start)

(***************************************************************************)
(* C14  For a value that is no sentinel, the first of the seven formats,   *)
(* in the listed order, that parses the value gives the result, written    *)
(* YYYY-MM-DD HH:MM:SS.  A value valid both as DD/MM/YYYY and as           *)
(* MM/DD/YYYY is read day first, a value valid under a later format only   *)
(* is parsed by that format, and 15/03/2024 10:30:00 becomes               *)
(* 2024-03-15 10:30:00.                                                    *)
(***************************************************************************)
C14_FirstFormatWins ==
    (FieldRepaired /\ ~IsSentinel(arg) /\ Parseable(arg)) =>
        /\ out.text = strftime(strptime(Strip(arg),
                                        formats_to_try[FirstParsing(arg)]).date)
        /\ IsCanonical(out.text)
        /\ arg = v_dmy => out.text = v_iso
        /\ arg = v_mdy => FirstParsing(arg) = 3 /\ out.text = v_iso
        /\ arg = v_both =>
              /\ {2, 3} \subseteq ParsingFormats(arg)
              /\ out.text = <<"2", "0", "2", "4", "-", "0", "4", "-", "0", "3",
                              " ", "1", "0", ":", "3", "0", ":", "0", "0">>

\* a value valid day first and month first has been read day first
C14_Witness ==
    /\ FieldRepaired
    /\ arg = v_both
    /\ ParsingFormats(arg) = {2, 3}
    /\ out.text[6] = "0" /\ out.text[7] = "4"

(***************************************************************************)
(* Reading a call of repair_date_issues                                    *)
(***************************************************************************)
Repairing == entry = "repair_date_issues" /\ pc = "done"

FileWritten == Repairing /\ result = "output_file"

\* the date columns of the file, counted from 0
DateIndices ==
    {p[1] : p \in Range(DateColumns(Split(Strip(file.lines[2]))))}

\* the fields of a line of the file and of the output, the newline apart
InFields(i) == Split(Chomp(file.lines[i]))

OutFields(i) == Split(Chomp(out.lines[i]))

\* the fields of the date columns in the data lines: (line, column)
DateFields ==
    {<<i, c>> \in (3..Len(file.lines)) \X DateIndices : c < Len(InFields(i))}

(***************************************************************************)
(* C15  A value of a date column that is no sentinel and that none of the  *)
(* seven formats parses is in the output as it is in the input, character  *)
(* for character, the blanks around it included, and is not counted as a   *)
(* correction: the corrections counted are the sentinels and the parsed    *)
(* values that the repair changed.                                         *)
(***************************************************************************)
C15_UnparsedLeftUnchanged ==
    /\ (FieldRepaired /\ ~IsSentinel(arg) /\ ~Parseable(arg)) => out.text = arg
    /\ FileWritten =>
          /\ \A f \in DateFields :
                (~IsSentinel(InFields(f[1])[f[2] + 1])
                    /\ ~Parseable(InFields(f[1])[f[2] + 1]))
                => /\ Len(OutFields(f[1])) = Len(InFields(f[1]))
                   /\ OutFields(f[1])[f[2] + 1] = InFields(f[1])[f[2] + 1]
          /\ corrected =
                Cardinality({f \in DateFields :
                    /\ IsSentinel(InFields(f[1])[f[2] + 1])
                          \/ Parseable(InFields(f[1])[f[2] + 1])
                    /\ OutFields(f[1])[f[2] + 1] # InFields(f[1])[f[2] + 1]})

(***************************************************************************)
(* C16  Date repair is idempotent.  repair_date_field applied to what it   *)
(* returned returns it again, whatever the time of the second call, and a  *)
(* value already written YYYY-MM-DD HH:MM:SS that is a date is returned    *)
(* as it is.  repair_date_issues run on the file it wrote writes the same  *)
(* file and counts no correction.                                          *)
(***************************************************************************)
C16_RepairIdempotent ==
    /\ FieldRepaired =>
          /\ \A t \in Moments : repair_date_field(out.text, t) = out.text
          /\ (IsCanonical(arg) /\ Parseable(arg)) => out.text = arg
    /\ FileWritten =>
          \A clk \in Clocks :
             \E again \in {repair_date_issues(CsvFile(out.lines), clk)} :
                /\ again.kind = "output_file"
                /\ again.written = out.lines
                /\ again.corrections_made = 0

\* a repair that replaced a sentinel and normalised a date has written
\* its file
C16_Witness ==
    /\ FileWritten
    /\ corrected >= 2
    /\ \E f \in DateFields : IsSentinel(InFields(f[1])[f[2] + 1])
    /\ \E f \in DateFields :
          /\ Parseable(InFields(f[1])[f[2] + 1])
          /\ OutFields(f[1])[f[2] + 1] # InFields(f[1])[f[2] + 1]

(***************************************************************************)
(* C17  repair_date_issues writes the first two lines of the file, the     *)
(* metadata line and the header line, as they are, character for           *)
(* character, repairs no field of them, and writes as many lines as the    *)
(* file has, in the same order.                                            *)
(***************************************************************************)
C17_FirstTwoLinesVerbatim ==
    FileWritten =>
        /\ out.lines[1] = file.lines[1]
        /\ out.lines[2] = file.lines[2]
        /\ Len(out.lines) = Len(file.lines)
        /\ \A i \in 3..Len(file.lines) :
              \A c \in 1..Len(InFields(i)) :
                 (c - 1) \notin DateIndices =>
                    Strip(OutFields(i)[c]) = Strip(InFields(i)[c])

(***************************************************************************)
(* C18  analyze_date_problems samples, for each date column, every one of  *)
(* the first 10 data lines the file has (lines 3 to 12, counted from 1),   *)
(* and records one anomaly (line, column, value, reason) for every sampled *)
(* value that does not look like a date.  No line among those is skipped,  *)
(* the last line of a file of 12 or fewer lines included.                  *)
(***************************************************************************)
Analyzed ==
    /\ entry \in {"repair_date_issues", "main"}
    /\ pc \in {"unpack", "done"}
    /\ raw.kind = "tuple" /\ raw.len = 3 /\ raw.t1.kind = "list"

\* the last of the lines to sample
LastSampled == IF Len(file.lines) < 12 THEN Len(file.lines) ELSE 12

\* the samples printed for a column name
SamplesOf(name) ==
    {p[2] : p \in {q \in Range(log[CHOOSE k \in Printed("MUESTRAS DE FECHAS") : TRUE][2]) :
                       q[1] = name}}

C18_SamplesFirstTenRows ==
    Analyzed =>
        \A i \in 3..LastSampled :
            \A p \in Range(raw.t3) :
                p[1] < Len(Split(Strip(file.lines[i]))) =>
                    LET v == Split(Strip(file.lines[i]))[p[1] + 1] IN
                    /\ \E smp \in SamplesOf(p[2]) : v \in Range(smp)
                    /\ ~looks_like_date(v) =>
                          [line |-> i, column |-> p[2], value |-> v,
                           reason |-> "No parece fecha"] \in Range(raw.t2)

(***************************************************************************)
(* C19  looks_like_date(v) is true exactly when v is not blank and either  *)
(* holds a match of one of the patterns YYYY-MM-DD, MM/DD/YYYY,            *)
(* MM-DD-YYYY, YYYY/MM/DD or holds, whatever the letter case, one of       *)
(* 2023, 2024, 2025, a month abbreviation of three letters, am, pm.        *)
(* 2024-01-05 looks like a date; WPA2, the empty value and a value of      *)
(* blanks do not.                                                          *)
(***************************************************************************)
\* s holds ten characters in a row with digits everywhere but at the two
\* places seps, where it has the separator sep
HasWindow(s, seps, sep) ==
    \E i \in 0..(Len(s) - 10) :
        \A k \in 1..10 :
            IF k \in seps THEN s[i + k] = sep ELSE IsDigit(s[i + k])

DateTokens ==
    {<<"2", "0", "2", "3">>, <<"2", "0", "2", "4">>, <<"2", "0", "2", "5">>,
     <<"j", "a", "n">>, <<"f", "e", "b">>, <<"m", "a", "r">>,
     <<"a", "p", "r">>, <<"m", "a", "y">>, <<"j", "u", "n">>,
     <<"j", "u", "l">>, <<"a", "u", "g">>, <<"s", "e", "p">>,
     <<"o", "c", "t">>, <<"n", "o", "v">>, <<"d", "e", "c">>,
     <<"a", "m">>, <<"p", "m">>}

DateLike(v) ==
    /\ \E k \in 1..Len(v) : v[k] \notin Whitespace
    /\ \/ HasWindow(v, {5, 8}, "-")
       \/ HasWindow(v, {3, 6}, "/")
       \/ HasWindow(v, {3, 6}, "-")
       \/ HasWindow(v, {5, 8}, "/")
       \/ \E t \in DateTokens : Contains(lower(v), t)

C19_LooksLikeDate ==
    (entry = "looks_like_date" /\ pc = "done") =>
        /\ result = "True" <=> DateLike(arg)
        /\ arg = v_day => result = "True"
        /\ arg \in {v_wpa2, v_empty, v_blank} => result = "False"

\* a word that holds "am" has been taken for a date
C19_Witness ==
    /\ entry = "looks_like_date" /\ pc = "done"
    /\ arg = v_sample
    /\ result = "True"

(***************************************************************************)
(* C20  The date analysis and repair do not crash on a file that can be    *)
(* read and has fewer than 2 lines, the empty file included:               *)
(* analyze_date_problems reports the condition, repair_date_issues returns *)
(* None without raising and without writing an output file, and main with  *)
(* --solo-analisis completes without raising.                              *)
(***************************************************************************)
C20_ShortFileNoCrash ==
    (entry \in {"repair_date_issues", "main"} /\ pc = "done"
        /\ file.exists /\ Len(file.lines) < 2)
    => /\ result # "ValueError"
       /\ entry = "repair_date_issues" => result = "None" /\ out = None
       /\ entry = "main" => result = "completed"

(***************************************************************************)
(* C21  In repair_date_issues the number of corrections reported is the    *)
(* number of fields of the date columns, over all data lines, whose        *)
(* repaired value differs from the original one.  The before/after lines   *)
(* printed are the first min(5, count) corrections in the order of the     *)
(* file; a correction after the fifth is counted all the same.             *)
(***************************************************************************)
\* the fields of a data line as the repair reads them
ReadFields(i) == Split(Strip(file.lines[i]))

\* the fields (line, column) the output has changed
Corrections ==
    {f \in (3..Len(file.lines)) \X DateIndices :
        /\ f[2] < Len(ReadFields(f[1]))
        /\ OutFields(f[1])[f[2] + 1] # ReadFields(f[1])[f[2] + 1]}

\* the place of a correction in the order of the file
Rank(f) ==
    Cardinality({g \in Corrections :
        g[1] < f[1] \/ (g[1] = f[1] /\ g[2] <= f[2])})

\* the before/after lines printed, in order
BeforeAfter == SelectSeq(log, LAMBDA l : l[1] = "Linea")

C21_CorrectionCount ==
    FileWritten =>
        /\ corrected = Cardinality(Corrections)
        /\ log[CHOOSE p \in Printed("Correcciones de fecha aplicadas") : TRUE][2]
              = Cardinality(Corrections)
        /\ Len(BeforeAfter) = Min(5, Cardinality(Corrections))
        /\ \A f \in Corrections :
              Rank(f) <= 5 =>
                 BeforeAfter[Rank(f)] =
                    <<"Linea", f[1] - 1, ReadFields(f[1])[f[2] + 1],
                      OutFields(f[1])[f[2] + 1]>>

\* six fields were corrected and five of them printed
C21_Witness ==
    /\ FileWritten
    /\ corrected = 6
    /\ Cardinality(Corrections) = 6
    /\ Len(BeforeAfter) = 5

(***************************************************************************)
(* C22  validate_date_repair only reads: whether it returns True or, after *)
(* an error it caught, False, the file it was given holds after the call   *)
(* what it held before, and no other file is created or written.           *)
(***************************************************************************)
ValidateReturned == entry = "validate_date_repair" /\ pc = "done"

C22_ValidateReadOnly ==
    ValidateReturned =>
        /\ result \in {"True", "False"}
        /\ disk = Disk(path, file)
        /\ DOMAIN disk \subseteq {path}
        /\ file.exists => disk[path] = file.lines

\* a file of two data lines with a date column was validated
C22_Witness ==
    /\ ValidateReturned
    /\ result = "True"
    /\ file.exists /\ Len(file.lines) = 4
    /\ Printed("ANALISIS DE LA COLUMNA") # {}

(***************************************************************************)
(* C23  In robust_csv_loader every attempt, of a strategy or of the manual *)
(* recovery, prints its attempt message and then exactly one outcome       *)
(* message before the next attempt starts: the success with the number of  *)
(* rows loaded, or the failure with its reason.  No attempt ends silently. *)
(***************************************************************************)
IsAttempt(l) == l[1] \in {"Intentando estrategia", "Intentando carga manual"}

IsOutcome(l) ==
    l[1] \in {"Estrategia exitosa", "Estrategia fallo",
              "Carga manual exitosa", "Carga manual fallo"}

\* the message l reports the outcome of the attempt a, rows loaded
OutcomeOf(a, l, rows) ==
    IF a[1] = "Intentando estrategia"
    THEN \/ l = <<"Estrategia exitosa", a[2], rows>>
         \/ l[1] = "Estrategia fallo" /\ l[2] = a[2] /\ Len(l) = 3
    ELSE \/ l = <<"Carga manual exitosa", rows>>
         \/ l[1] = "Carga manual fallo" /\ Len(l) = 2

C23_AttemptThenOutcome ==
    (entry = "analyze_wifi_interference" /\ pc \in {"cascade", "manual", "loaded", "done"})
    => \A p \in DOMAIN log :
          /\ IsAttempt(log[p]) =>
                /\ p < Len(log)
                /\ OutcomeOf(log[p], log[p + 1],
                             IF IsDF(raw) THEN Len(raw.rows) ELSE 0)
                /\ p + 2 <= Len(log) => ~IsOutcome(log[p + 2])
          /\ IsOutcome(log[p]) => p > 1 /\ IsAttempt(log[p - 1])

(***************************************************************************)
(* C24  clean_and_validate_data returns a new dataset and leaves the one   *)
(* it was given as it was: after the call the caller's dataset has the     *)
(* same rows and the same values in its RSSI and Channel cells as before,  *)
(* not the coerced ones, also when the call fails part-way.                *)
(***************************************************************************)
\* the same value: the same cell, or the same number written as text
SameValue(a, b) ==
    \/ a = b
    \/ ~IsNaN(to_numeric(a)) /\ to_numeric(a) = to_numeric(b)

C24_InputDatasetUnchanged ==
    (entry = "analyze_wifi_interference" /\ pc = "done" /\ IsDF(raw))
    => /\ IsDF(df)
       /\ df.columns = raw.columns
       /\ df.index = raw.index
       /\ Len(df.rows) = Len(raw.rows)
       /\ \A k \in 1..Len(raw.rows) :
             \A c \in 1..Len(raw.columns) :
                SameValue(df.rows[k][c], raw.rows[k][c])

(***************************************************************************)
(* C25  In cargar_datos a row is in the dataset only if its RSSI, Channel, *)
(* CurrentLatitude and CurrentLongitude are all there after the coercion:  *)
(* a row whose RSSI or Channel cell is no number is dropped, as is a row   *)
(* whose latitude or longitude is no number.                               *)
(***************************************************************************)
Prepared == Loading /\ pc = "done" /\ result = "True"

\* the cell of the row with index label i under a column, before the
\* coercions
CellBefore(i, name) == resolved.rows[i + 1][ColIndex(resolved, name)]

\* the rows, by index label, whose cell under each of the names that are
\* columns is a number
RowsWithNumbers(names) ==
    {k - 1 : k \in {j \in DOMAIN resolved.rows :
                       \A name \in names :
                          HasColumn(resolved, name) =>
                             ~NotNumeric(resolved.rows[j][ColIndex(resolved, name)])}}

Reported(tag) ==
    IF Printed(tag) = {} THEN 0
    ELSE log[CHOOSE p \in Printed(tag) : TRUE][2]

\* the cells of a column that held a value and were coerced to missing
FailedCoercions(name) ==
    Cardinality({k \in DOMAIN raw.rows :
        /\ ~IsNaN(raw.rows[k][ColIndex(raw, name)])
        /\ IsNaN(to_numeric(raw.rows[k][ColIndex(raw, name)]))})

C26_ReportedCounts ==
    CleanReturned =>
        /\ Reported("Valores RSSI no numericos eliminados") = FailedCoercions(RSSI)
        /\ Reported("Valores Channel no numericos eliminados") = FailedCoercions(Channel)
        /\ Reported("Filas sin datos criticos eliminadas")
              = Len(raw.rows) - Len(out.rows)

(***************************************************************************)
(* C27  repair_date_issues never overwrites or changes the file it reads:  *)
(* for every input path, with no output path given, the output path        *)
(* derived from it (the input path with the mark _fixed) is another path,  *)
(* and after the call the input file holds what it held before.            *)
(***************************************************************************)
C27_InputFileUntouched ==
    Repairing =>
        /\ output_file(path) # path
        /\ file.exists => (path \in DOMAIN disk /\ disk[path] = file.lines)
        /\ FileWritten => (output_file(path) \in DOMAIN disk
                              /\ disk[output_file(path)] = out.lines)

(***************************************************************************)
(* C28  For every data line repair_date_issues writes a line of as many    *)
(* fields, and every field that is in no date column is in the output      *)
(* exactly as in the input, as is a short line that does not reach a date  *)
(* column: only the fields at the indices of the date columns can differ.  *)
(***************************************************************************)
C28_OtherFieldsUnchanged ==
    FileWritten =>
        \A i \in 3..Len(file.lines) :
            /\ Len(OutFields(i)) = Len(InFields(i))
            /\ \A c \in 1..Len(InFields(i)) :
                  (c - 1) \notin DateIndices => OutFields(i)[c] = InFields(i)[c]
====
